---- MODULE Spec2Model ----
(***************************************************************************)
(* Model of the data aggregation and merge pipeline of the XCH dashboard:  *)
(*   src/lib/transform.ts     mergeTokensAndMarkets and its helpers        *)
(*   src/lib/tibetswap-api.ts reserve arithmetic                           *)
(*   src/lib/data-fetcher.ts  fetchDashboardData / fetchDashboardDataSafe  *)
(*                                                                         *)
(* JavaScript numbers are modelled as exact decimal-scaled rationals       *)
(* n/d * 10^e (floating-point rounding is not modelled).  The string       *)
(* fields name, iconUrl, pairId and the numbers high24h, low24h of a       *)
(* DashboardToken are not modelled: nothing in the merge reads them.       *)
(***************************************************************************)
EXTENDS Integers, Sequences, FiniteSets, TLC

(***************************************************************************)
(* Numbers.  A number is [n, d, e] standing for n/d * 10^e, kept in the    *)
(* canonical form gcd(n, d) = 1, d > 0 coprime to 10, n not a multiple of  *)
(* 10, and zero = [0, 1, 0]; equal values are then equal records.          *)
(***************************************************************************)
RECURSIVE Gcd(_, _)
Gcd(a, b) == IF b = 0 THEN a ELSE Gcd(b, a % b)

Abs(x) == IF x < 0 THEN -x ELSE x

RECURSIVE Pow10(_)
Pow10(k) == IF k <= 0 THEN 1 ELSE 10 * Pow10(k - 1)

Zero == [n |-> 0, d |-> 1, e |-> 0]

RECURSIVE Norm(_, _, _)
Norm(n, d, e) ==
    IF n = 0 THEN Zero
    ELSE IF d % 2 = 0 THEN Norm(n * 5, d \div 2, e - 1)
    ELSE IF d % 5 = 0 THEN Norm(n * 2, d \div 5, e - 1)
    ELSE IF n % 10 = 0 THEN Norm(n \div 10, d, e + 1)
    ELSE LET g == Gcd(Abs(n), d) IN [n |-> n \div g, d |-> d \div g, e |-> e]

Num(k) == Norm(k, 1, 0)
Dec(k, e) == Norm(k, 1, e)

Mul(a, b) == Norm(a.n * b.n, a.d * b.d, a.e + b.e)

\* a / b for b # 0
Div(a, b) ==
    IF b.n < 0 THEN Norm(-(a.n * b.d), a.d * (-b.n), a.e - b.e)
    ELSE Norm(a.n * b.d, a.d * b.n, a.e - b.e)

Add(a, b) ==
    LET m == IF a.e < b.e THEN a.e ELSE b.e
    IN  Norm(a.n * Pow10(a.e - m) * b.d + b.n * Pow10(b.e - m) * a.d, a.d * b.d, m)

Neg(a) == [a EXCEPT !.n = -a.n]
Sub(a, b) == Add(a, Neg(b))
Lt(a, b) == Sub(a, b).n < 0
Gt(a, b) == Lt(b, a)
MathMax(a, b) == IF Lt(a, b) THEN b ELSE a

\* Math.max(...xs) of a non-empty array
RECURSIVE MaxOf(_)
MaxOf(xs) == IF Len(xs) = 1 THEN xs[1] ELSE MathMax(xs[1], MaxOf(Tail(xs)))

(***************************************************************************)
(* Raw JSON values read through safeNumber: a value is a finite number or  *)
(* one of the things safeNumber rejects.                                   *)
(***************************************************************************)
Number(v) == [kind |-> "number", v |-> v]
Undefined == [kind |-> "undefined", v |-> Zero]
NaN       == [kind |-> "NaN", v |-> Zero]
Infinity  == [kind |-> "Infinity", v |-> Zero]

\* safeNumber(value, fallback = 0)
safeNumber(value) == IF value.kind = "number" THEN value.v ELSE Zero

\* market.liquidity is either undefined or { ask: number[], bid: number[] }
NoLiquidity == [defined |-> FALSE, ask |-> <<>>, bid |-> <<>>]
Liquidity(ask, bid) == [defined |-> TRUE, ask |-> ask, bid |-> bid]

calculateDexieLiquidity(liquidity) ==
    IF ~liquidity.defined THEN Zero
    ELSE LET maxAsk == IF Len(liquidity.ask) > 0 THEN MaxOf(liquidity.ask) ELSE Zero
             maxBid == IF Len(liquidity.bid) > 0 THEN MaxOf(liquidity.bid) ELSE Zero
         IN  Add(maxAsk, maxBid)

(***************************************************************************)
(* src/lib/tibetswap-api.ts: reserves are in mojos, 1 XCH = 10^12 mojos.   *)
(***************************************************************************)
MojosPerXch == Dec(1, 12)
DefaultDenom == 1000

calculatePriceFromReserves(xchReserve, tokenReserve, tokenDenom) ==
    IF tokenReserve = Zero THEN Zero
    ELSE LET xchInPool    == Div(xchReserve, MojosPerXch)
             tokensInPool == Div(tokenReserve, Num(tokenDenom))
         IN  IF tokensInPool = Zero THEN Zero ELSE Div(xchInPool, tokensInPool)

calculateLiquidityXch(xchReserve) == Mul(Div(xchReserve, MojosPerXch), Num(2))

(***************************************************************************)
(* Lookup maps.  Map.set overwrites, so the last entry with an id wins.    *)
(* A lookup returns <<>> (undefined) or <<entry>>.                         *)
(***************************************************************************)
RECURSIVE createTokenMap(_, _)
createTokenMap(toks, id) ==
    IF toks = <<>> THEN <<>>
    ELSE IF toks[Len(toks)].id = id THEN <<toks[Len(toks)]>>
    ELSE createTokenMap(SubSeq(toks, 1, Len(toks) - 1), id)

RECURSIVE createTibetSwapMap(_, _)
createTibetSwapMap(pairs, id) ==
    IF pairs = <<>> THEN <<>>
    ELSE IF pairs[Len(pairs)].asset_id = id THEN <<pairs[Len(pairs)]>>
    ELSE createTibetSwapMap(SubSeq(pairs, 1, Len(pairs) - 1), id)

\* a || b || c on strings: the empty string is falsy
Or3(a, b, c) == IF a # "" THEN a ELSE IF b # "" THEN b ELSE c

(***************************************************************************)
(* transformMarket: <<>> stands for null.                                  *)
(***************************************************************************)
\* transformMarket passing the change fractions on unscaled
transformMarketChangeAsFraction(market, toks, xchUsd, pairs) ==
    LET token     == createTokenMap(toks, market.id)
        tibetPair == createTibetSwapMap(pairs, market.id)
        symbol    == Or3(IF token = <<>> THEN "" ELSE token[1].code, market.code, "UNKNOWN")
        priceXch  == safeNumber(market.price)
        volume24hXch == safeNumber(market.volDaily)
        volume7dXch  == safeNumber(market.volWeekly)
        dexieLiq  == calculateDexieLiquidity(market.liquidity)
        liquidityXch ==
            IF tibetPair # <<>>
            THEN MathMax(dexieLiq, calculateLiquidityXch(tibetPair[1].xch_reserve))
            ELSE dexieLiq
    IN  IF priceXch = Zero THEN <<>>
        ELSE << [ id           |-> market.id,
                  symbol       |-> symbol,
                  priceXch     |-> priceXch,
                  priceUsd     |-> Mul(priceXch, xchUsd),
                  change24h    |-> safeNumber(market.changeDaily),
                  change7d     |-> safeNumber(market.changeWeekly),
                  volume24hXch |-> volume24hXch,
                  volume24hUsd |-> Mul(volume24hXch, xchUsd),
                  volume7dXch  |-> volume7dXch,
                  volume7dUsd  |-> Mul(volume7dXch, xchUsd),
                  liquidityXch |-> liquidityXch,
                  liquidityUsd |-> Mul(liquidityXch, xchUsd),
                  lastUpdated  |-> "now",
                  hasMarket    |-> "undefined",
                  priceSource  |-> "dexie" ] >>

\* transformMarket taking the pool's liquidity whenever there is a pool
transformMarketPrefersPool(market, toks, xchUsd, pairs) ==
    LET token     == createTokenMap(toks, market.id)
        tibetPair == createTibetSwapMap(pairs, market.id)
        symbol    == Or3(IF token = <<>> THEN "" ELSE token[1].code, market.code, "UNKNOWN")
        priceXch  == safeNumber(market.price)
        volume24hXch == safeNumber(market.volDaily)
        volume7dXch  == safeNumber(market.volWeekly)
        dexieLiq  == calculateDexieLiquidity(market.liquidity)
        liquidityXch ==
            IF tibetPair # <<>>
            THEN calculateLiquidityXch(tibetPair[1].xch_reserve)
            ELSE dexieLiq
    IN  IF priceXch = Zero THEN <<>>
        ELSE << [ id           |-> market.id,
                  symbol       |-> symbol,
                  priceXch     |-> priceXch,
                  priceUsd     |-> Mul(priceXch, xchUsd),
                  change24h    |-> Mul(safeNumber(market.changeDaily), Num(100)),
                  change7d     |-> Mul(safeNumber(market.changeWeekly), Num(100)),
                  volume24hXch |-> volume24hXch,
                  volume24hUsd |-> Mul(volume24hXch, xchUsd),
                  volume7dXch  |-> volume7dXch,
                  volume7dUsd  |-> Mul(volume7dXch, xchUsd),
                  liquidityXch |-> liquidityXch,
                  liquidityUsd |-> Mul(liquidityXch, xchUsd),
                  lastUpdated  |-> "now",
                  hasMarket    |-> "undefined",
                  priceSource  |-> "dexie" ] >>

transformMarket(market, toks, xchUsd, pairs) ==
    LET token     == createTokenMap(toks, market.id)
        tibetPair == createTibetSwapMap(pairs, market.id)
        symbol    == Or3(IF token = <<>> THEN "" ELSE token[1].code, market.code, "UNKNOWN")
        priceXch  == safeNumber(market.price)
        volume24hXch == safeNumber(market.volDaily)
        volume7dXch  == safeNumber(market.volWeekly)
        dexieLiq  == calculateDexieLiquidity(market.liquidity)
        liquidityXch ==
            IF tibetPair # <<>>
            THEN MathMax(dexieLiq, calculateLiquidityXch(tibetPair[1].xch_reserve))
            ELSE dexieLiq
    IN  IF priceXch = Zero THEN <<>>
        ELSE << [ id           |-> market.id,
                  symbol       |-> symbol,
                  priceXch     |-> priceXch,
                  priceUsd     |-> Mul(priceXch, xchUsd),
                  change24h    |-> Mul(safeNumber(market.changeDaily), Num(100)),
                  change7d     |-> Mul(safeNumber(market.changeWeekly), Num(100)),
                  volume24hXch |-> volume24hXch,
                  volume24hUsd |-> Mul(volume24hXch, xchUsd),
                  volume7dXch  |-> volume7dXch,
                  volume7dUsd  |-> Mul(volume7dXch, xchUsd),
                  liquidityXch |-> liquidityXch,
                  liquidityUsd |-> Mul(liquidityXch, xchUsd),
                  lastUpdated  |-> "now",
                  hasMarket    |-> "undefined",
                  priceSource  |-> "dexie" ] >>

(***************************************************************************)
(* transformTibetSwapToken                                                 *)
(***************************************************************************)
transformTibetSwapToken(pair, token, xchUsd) ==
    LET symbol     == Or3(IF token = <<>> THEN "" ELSE token[1].code,
                          pair.asset_short_name, "UNKNOWN")
        tokenDenom == IF token = <<>> \/ token[1].denom = 0
                      THEN DefaultDenom ELSE token[1].denom
        priceXch   == calculatePriceFromReserves(pair.xch_reserve, pair.token_reserve,
                                                 tokenDenom)
        liquidityXch == calculateLiquidityXch(pair.xch_reserve)
    IN  [ id           |-> pair.asset_id,
          symbol       |-> symbol,
          priceXch     |-> priceXch,
          priceUsd     |-> Mul(priceXch, xchUsd),
          change24h    |-> Zero,
          change7d     |-> Zero,
          volume24hXch |-> Zero,
          volume24hUsd |-> Zero,
          volume7dXch  |-> Zero,
          volume7dUsd  |-> Zero,
          liquidityXch |-> liquidityXch,
          liquidityUsd |-> Mul(liquidityXch, xchUsd),
          lastUpdated  |-> "now",
          hasMarket    |-> "true",
          priceSource  |-> "tibetswap" ]

(***************************************************************************)
(* mergeTokensAndMarkets.  The merge state is the array dashboardTokens    *)
(* (out) and the set processedIds (processed).                             *)
(***************************************************************************)
EmptyMerge == [out |-> <<>>, processed |-> {}]

\* MarketStep marking the id processed even when the entry gave no record
MarketStepMarksAlways(market, toks, xchUsd, pairs, st) ==
    LET transformed == transformMarket(market, toks, xchUsd, pairs)
    IN  [out |-> IF transformed # <<>> THEN Append(st.out, transformed[1]) ELSE st.out,
         processed |-> st.processed \cup {market.id}]

\* One iteration of the first loop (transform.ts 197-201)
MarketStep(market, toks, xchUsd, pairs, st) ==
    LET transformed == transformMarket(market, toks, xchUsd, pairs)
    IN  IF transformed # <<>>
        THEN [out |-> Append(st.out, transformed[1]),
              processed |-> st.processed \cup {market.id}]
        ELSE st

\* First loop: every market entry that transforms to a record
RECURSIVE MarketsPass(_, _, _, _, _, _)
MarketsPass(i, mkts, toks, xchUsd, pairs, st) ==
    IF i > Len(mkts) THEN st
    ELSE MarketsPass(i + 1, mkts, toks, xchUsd, pairs,
                     MarketStep(mkts[i], toks, xchUsd, pairs, st))

\* PairStep without the processedIds test
PairStepNoProcessedCheck(pair, toks, xchUsd, st) ==
    LET transformed == transformTibetSwapToken(pair, createTokenMap(toks, pair.asset_id),
                                               xchUsd)
    IN  IF Gt(transformed.priceXch, Zero)
        THEN [out |-> Append(st.out, transformed),
              processed |-> st.processed \cup {pair.asset_id}]
        ELSE st

\* One iteration of the second loop (transform.ts 206-213)
PairStep(pair, toks, xchUsd, st) ==
    IF pair.asset_id \notin st.processed
    THEN LET transformed == transformTibetSwapToken(pair,
                                createTokenMap(toks, pair.asset_id), xchUsd)
         IN  IF Gt(transformed.priceXch, Zero)
             THEN [out |-> Append(st.out, transformed),
                   processed |-> st.processed \cup {pair.asset_id}]
             ELSE st
    ELSE st

\* Second loop: TibetSwap pairs whose id has no record yet
RECURSIVE PairsPass(_, _, _, _, _)
PairsPass(i, pairs, toks, xchUsd, st) ==
    IF i > Len(pairs) THEN st
    ELSE PairsPass(i + 1, pairs, toks, xchUsd, PairStep(pairs[i], toks, xchUsd, st))

\* Record of a remaining token with no market data at all
NoMarketToken(token) ==
    [ id           |-> token.id,
      symbol       |-> token.code,
      priceXch     |-> Zero,
      priceUsd     |-> Zero,
      change24h    |-> Zero,
      change7d     |-> Zero,
      volume24hXch |-> Zero,
      volume24hUsd |-> Zero,
      volume7dXch  |-> Zero,
      volume7dUsd  |-> Zero,
      liquidityXch |-> Zero,
      liquidityUsd |-> Zero,
      lastUpdated  |-> "now",
      hasMarket    |-> "false",
      priceSource  |-> "none" ]

\* LastTradeToken flagged as having no market
LastTradeTokenNoMarket(token, lastTrade, xchUsd) ==
    [NoMarketToken(token) EXCEPT !.priceXch = lastTrade.priceXch,
                                 !.priceUsd = Mul(lastTrade.priceXch, xchUsd),
                                 !.lastUpdated = lastTrade.date,
                                 !.priceSource = "lastTrade"]

\* LastTradeToken with the XCH price copied into priceUsd
LastTradeTokenUsdUnscaled(token, lastTrade, xchUsd) ==
    [NoMarketToken(token) EXCEPT !.priceXch = lastTrade.priceXch,
                                 !.priceUsd = lastTrade.priceXch,
                                 !.lastUpdated = lastTrade.date,
                                 !.hasMarket = "true",
                                 !.priceSource = "lastTrade"]

\* LastTradeToken stamped with the time of the merge
LastTradeTokenStampedNow(token, lastTrade, xchUsd) ==
    [NoMarketToken(token) EXCEPT !.priceXch = lastTrade.priceXch,
                                 !.priceUsd = Mul(lastTrade.priceXch, xchUsd),
                                 !.hasMarket = "true",
                                 !.priceSource = "lastTrade"]

\* Record of a remaining token that has a last trade price
LastTradeToken(token, lastTrade, xchUsd) ==
    [ id           |-> token.id,
      symbol       |-> token.code,
      priceXch     |-> lastTrade.priceXch,
      priceUsd     |-> Mul(lastTrade.priceXch, xchUsd),
      change24h    |-> Zero,
      change7d     |-> Zero,
      volume24hXch |-> Zero,
      volume24hUsd |-> Zero,
      volume7dXch  |-> Zero,
      volume7dUsd  |-> Zero,
      liquidityXch |-> Zero,
      liquidityUsd |-> Zero,
      lastUpdated  |-> lastTrade.date,
      hasMarket    |-> "true",
      priceSource  |-> "lastTrade" ]

\* TokenStep without the test of the last trade price
TokenStepNoPriceCheck(token, trades, xchUsd, st) ==
    IF token.id \in st.processed THEN st
    ELSE IF token.id \in DOMAIN trades
    THEN [st EXCEPT !.out = Append(@, LastTradeToken(token, trades[token.id], xchUsd))]
    ELSE [st EXCEPT !.out = Append(@, NoMarketToken(token))]

\* TokenStep without the processedIds test
TokenStepNoProcessedCheck(token, trades, xchUsd, st) ==
    IF token.id \in DOMAIN trades /\ Gt(trades[token.id].priceXch, Zero)
    THEN [st EXCEPT !.out = Append(@, LastTradeToken(token, trades[token.id], xchUsd))]
    ELSE [st EXCEPT !.out = Append(@, NoMarketToken(token))]

\* TokenStep leaving out the tokens that have no last-trade price
TokenStepDropsUnpriced(token, trades, xchUsd, st) ==
    IF token.id \in st.processed THEN st
    ELSE IF token.id \in DOMAIN trades /\ Gt(trades[token.id].priceXch, Zero)
    THEN [st EXCEPT !.out = Append(@, LastTradeToken(token, trades[token.id], xchUsd))]
    ELSE st

\* One iteration of the third loop (transform.ts 218-271); processedIds is
\* read here and never written
TokenStep(token, trades, xchUsd, st) ==
    IF token.id \in st.processed THEN st
    ELSE IF token.id \in DOMAIN trades /\ Gt(trades[token.id].priceXch, Zero)
    THEN [st EXCEPT !.out = Append(@, LastTradeToken(token, trades[token.id], xchUsd))]
    ELSE [st EXCEPT !.out = Append(@, NoMarketToken(token))]

\* Third loop: the remaining tokens
RECURSIVE TokensPass(_, _, _, _, _)
TokensPass(i, toks, trades, xchUsd, st) ==
    IF i > Len(toks) THEN st
    ELSE TokensPass(i + 1, toks, trades, xchUsd, TokenStep(toks[i], trades, xchUsd, st))

(***************************************************************************)
(* The final sort.  String.prototype.localeCompare is modelled on the      *)
(* symbols the model uses by their rank in the default (ICU root)          *)
(* collation, where case is a tertiary difference:                         *)
(* "" < "AAA" < "aab" < "BBB" < "ccc" < "UNKNOWN".                         *)
(***************************************************************************)
LocaleRank(symbol) ==
    CASE symbol = ""        -> 0
      [] symbol = "AAA"     -> 1
      [] symbol = "aab"     -> 2
      [] symbol = "BBB"     -> 3
      [] symbol = "ccc"     -> 4
      [] symbol = "UNKNOWN" -> 5

Sign(x) == IF x < 0 THEN -1 ELSE IF x > 0 THEN 1 ELSE 0

\* Compare ordering the market group by rising volume
CompareAscending(a, b) ==
    LET aHasMarket == a.hasMarket # "false"
        bHasMarket == b.hasMarket # "false"
    IN  IF aHasMarket /\ ~bHasMarket THEN -1
        ELSE IF ~aHasMarket /\ bHasMarket THEN 1
        ELSE IF aHasMarket /\ bHasMarket THEN Sign(Sub(a.volume7dXch, b.volume7dXch).n)
        ELSE Sign(LocaleRank(a.symbol) - LocaleRank(b.symbol))

\* the comparator handed to Array.prototype.sort
Compare(a, b) ==
    LET aHasMarket == a.hasMarket # "false"
        bHasMarket == b.hasMarket # "false"
    IN  IF aHasMarket /\ ~bHasMarket THEN -1
        ELSE IF ~aHasMarket /\ bHasMarket THEN 1
        ELSE IF aHasMarket /\ bHasMarket THEN Sign(Sub(b.volume7dXch, a.volume7dXch).n)
        ELSE Sign(LocaleRank(a.symbol) - LocaleRank(b.symbol))

\* Array.prototype.sort is stable: x goes behind every element not after it
RECURSIVE InsertSorted(_, _)
InsertSorted(x, s) ==
    IF s = <<>> THEN <<x>>
    ELSE IF Compare(s[1], x) <= 0 THEN <<s[1]>> \o InsertSorted(x, Tail(s))
    ELSE <<x>> \o s

RECURSIVE SortTokens(_)
SortTokens(s) ==
    IF s = <<>> THEN <<>>
    ELSE InsertSorted(s[Len(s)], SortTokens(SubSeq(s, 1, Len(s) - 1)))

mergeTokensAndMarkets(toks, mkts, xchUsd, pairs, trades) ==
    LET s1 == MarketsPass(1, mkts, toks, xchUsd, pairs, EmptyMerge)
        s2 == PairsPass(1, pairs, toks, xchUsd, s1)
        s3 == TokensPass(1, toks, trades, xchUsd, s2)
    IN  SortTokens(s3.out)

(***************************************************************************)
(* Inputs.  The catalogues hold the entries the inputs are drawn from:     *)
(*   token A (denom 1000), tokens B and C (no denom), a second entry for   *)
(*   id A;                                                                 *)
(*   the market of the documented example for A, a zero-priced market for  *)
(*   A, a market for B with one empty liquidity side, and a market for B   *)
(*   with no last price;                                                   *)
(*   a pool for A (price 2 at denom 1000, liquidity 8), a pool for B       *)
(*   (price 4, liquidity 40) and an empty pool for A (price 0).            *)
(***************************************************************************)
Ids == {"A", "B", "C"}

TokenA  == [id |-> "A", code |-> "AAA", denom |-> 1000]
TokenB  == [id |-> "B", code |-> "BBB", denom |-> 0]
TokenA2 == [id |-> "A", code |-> "aab", denom |-> 100]
TokenC  == [id |-> "C", code |-> "ccc", denom |-> 0]
TokenCatalogue == {TokenA, TokenB, TokenA2, TokenC}

MarketA ==
    [ id |-> "A", code |-> "AAA", price |-> Number(Dec(5, -1)),
      changeDaily |-> Number(Dec(2, -2)), changeWeekly |-> Number(Dec(-1, -2)),
      volDaily |-> Number(Num(100)), volWeekly |-> Number(Num(500)),
      liquidity |-> Liquidity(<<Num(10)>>, <<Num(5)>>) ]
MarketAZero ==
    [ id |-> "A", code |-> "", price |-> Number(Zero),
      changeDaily |-> Number(Dec(3, -2)), changeWeekly |-> Undefined,
      volDaily |-> Number(Num(7)), volWeekly |-> Number(Num(900)),
      liquidity |-> NoLiquidity ]
MarketB ==
    [ id |-> "B", code |-> "BBB", price |-> Number(Num(2)),
      changeDaily |-> Undefined, changeWeekly |-> NaN,
      volDaily |-> Number(Num(40)), volWeekly |-> Number(Num(700)),
      liquidity |-> Liquidity(<<>>, <<Num(3), Num(8)>>) ]
MarketBNoPrice ==
    [ id |-> "B", code |-> "", price |-> Undefined,
      changeDaily |-> Undefined, changeWeekly |-> Undefined,
      volDaily |-> Infinity, volWeekly |-> Number(Num(50)),
      liquidity |-> NoLiquidity ]
MarketCatalogue == {MarketA, MarketAZero, MarketB, MarketBNoPrice}

PairA == [asset_id |-> "A", asset_short_name |-> "AAA",
          xch_reserve |-> Dec(4, 12), token_reserve |-> Num(2000)]
PairB == [asset_id |-> "B", asset_short_name |-> "",
          xch_reserve |-> Dec(2, 13), token_reserve |-> Num(5000)]
PairAEmpty == [asset_id |-> "A", asset_short_name |-> "AAA",
               xch_reserve |-> Dec(1, 12), token_reserve |-> Zero]
PairCatalogue == {PairA, PairB, PairAEmpty}

\* Map<string, LastTradePrice> as a function on the ids it holds
NoTrades == [i \in {} |-> [priceXch |-> Zero, date |-> ""]]
TradesA  == [i \in {"A"} |-> [priceXch |-> Dec(25, -2), date |-> "d1"]]
TradesABC == [i \in {"A", "B", "C"} |->
                IF i = "A" THEN [priceXch |-> Zero, date |-> "d2"]
                ELSE IF i = "B" THEN [priceXch |-> Num(3), date |-> "d3"]
                ELSE [priceXch |-> Dec(75, -2), date |-> "d4"]]
TradeMaps == {NoTrades, TradesA, TradesABC}

FALLBACK_XCH_USD == 25
FiatRates == {Num(FALLBACK_XCH_USD), Num(30)}

\* the inputs of one merge hold at most MaxInputs entries in all
MaxInputs == 4

BSeq(S, n) == UNION {[1..k -> S] : k \in 0..n}

(***************************************************************************)
(* State.                                                                  *)
(***************************************************************************)
VARIABLES
    tokens, markets, xchUsdPrice, tibetSwapPairs, lastTradePrices, \* arguments of the merge
    dashboardTokens, processedIds,                                 \* its locals
    pc,                                                            \* its position
    tokensResult, marketsResult,      \* fetchAllDexieData
    tibetSwapResult,                  \* fetchTibetSwapPairs
    lastTradePricesResult,            \* fetchLastTradePrices
    xchPriceResult,                   \* fetchXchUsdPrice
    result,                           \* what fetchDashboardData returned
    safeResult                        \* what fetchDashboardDataSafe returned

mergeVars == <<tokens, markets, xchUsdPrice, tibetSwapPairs, lastTradePrices,
               dashboardTokens, processedIds, pc>>
fetchVars == <<tokensResult, marketsResult, tibetSwapResult, lastTradePricesResult,
               xchPriceResult>>

\* The price oracle (xch-price.ts): its module-level cache, the clock it
\* reads, and the fetchXchUsdPrice calls that are under way.
VARIABLES
    cachedPrice,     \* let cachedPrice: { value, timestamp } | null
    now,             \* Date.now()
    calls,           \* position and locals of every fetchXchUsdPrice call
    microtasks,      \* calls whose awaited promise has resolved, oldest first
    completed,       \* history: the oracle fetches that delivered a price, in order
    written,         \* history: the assignments to cachedPrice, in order
    lastRead         \* what the latest getCachedXchPrice call returned

oracleVars == <<cachedPrice, now, calls, microtasks, completed, written, lastRead>>

\* The HTTP request each source client has under way.
VARIABLES
    requests         \* per upstream: the state of its fetch / fetchWithRetry

\* fetchLastTradePrices (last-trade-prices.ts): the offers of the response,
\* the position of its loop and the map it is building.
VARIABLES
    offers,          \* data.offers || []
    offerNo,         \* index of the offer the loop is at; 0 before the response
    tradeMap         \* the local map lastTradePrices

offerVars == <<offers, offerNo, tradeMap>>

\* usePolling (hooks/usePolling.ts): the hook of the dashboard page.
VARIABLES
    initialData,     \* the prop initialData
    onDataUpdate,    \* whether the prop onDataUpdate is supplied
    hookState,       \* data, isLoading, error, lastUpdated as of the last render
    queuedState,     \* the same after the set-calls made since that render
    prevDataRef,     \* prevDataRef.current
    polls,           \* position of every fetchData call
    updates,         \* history: the calls of onDataUpdate, in order
    clock            \* new Date()

pollVars == <<initialData, onDataUpdate, hookState, queuedState, prevDataRef,
              polls, updates, clock>>

\* usePagination (hooks/usePagination.ts) as used by the dashboard page.
VARIABLES
    pagination,        \* currentPage, pageSize, totalItems as of the last render
    queuedPagination,  \* the same after the set-calls made since that render
    itemsLength,       \* length of the list the page passes to paginateItems
    effectPending      \* the effect of the last render has not run yet

pageVars == <<pagination, queuedPagination, itemsLength, effectPending>>

\* fetchTokens, fetchMarkets (dexie-api.ts), fetchTibetSwapPairs
\* (tibetswap-api.ts): the response each of them is working on.
VARIABLES
    responses        \* per client: what response.json() gave, or that none came

envelopeVars == <<responses>>

\* state of the modules beside the aggregation and its source clients
moduleVars == <<offerVars, pollVars, pageVars, envelopeVars>>

clientVars == <<oracleVars, requests, moduleVars>>
vars == <<mergeVars, fetchVars, result, safeResult, clientVars>>

NotCalled == [status |-> "none"]
Pending   == [status |-> "pending"]

(***************************************************************************)
(* xch-price.ts: values of the oracle's state.                             *)
(***************************************************************************)
CACHE_TTL == 60000

\* number of fetchXchUsdPrice calls, and how far the clock runs (in steps of
\* half the TTL, so that an age of exactly CACHE_TTL occurs)
MaxCalls == 2
MaxTicks == 3
Calls == 1..MaxCalls
TickMs == CACHE_TTL \div 2

\* `number | null`: null beside the raw numbers
Null == [kind |-> "null", v |-> Zero]

\* cachedPrice = null
NullCache == [value |-> Null, timestamp |-> 0]

\* a call that has not been made yet
IdleCall == [pc |-> "idle", price |-> Null, ret |-> NotCalled,
             branch |-> "none", issued |-> {}]

(***************************************************************************)
(* The upstream requests of one aggregation: dexie-api.ts fetchWithRetry   *)
(* for tokens and markets, a plain fetch for the AMM pairs                 *)
(* (tibetswap-api.ts), the completed offers (last-trade-prices.ts) and the *)
(* price oracle (xch-price.ts).                                            *)
(***************************************************************************)
DEFAULT_TIMEOUT == 10000
MAX_RETRIES == 2

Upstreams == {"tokens", "markets", "pairs", "offers", "oracle"}
\* the requests that go through fetchWithRetry
Retried == {"tokens", "markets"}

\* setTimeout(() => controller.abort(), DEFAULT_TIMEOUT), or no timer at all
Timer   == [armed |-> TRUE, ms |-> DEFAULT_TIMEOUT]
NoTimer == [armed |-> FALSE, ms |-> 0]

\* no request has been made
NoRequest == [state |-> "none", silent |-> FALSE, retries |-> 0, attempts |-> 0,
              timer |-> NoTimer, waits |-> <<>>]

\* a DashboardData: its fetchedAt (ms) and its tokens
Snapshot(fetchedAt, tokenList) == [fetchedAt |-> fetchedAt, tokens |-> tokenList]
Snapshot0 == Snapshot(0, "t0")
Snapshot1 == Snapshot(1000, "t1")
Snapshot2 == Snapshot(2000, "t2")
Snapshots == {Snapshot0, Snapshot1, Snapshot2}

\* error = null
NoError == ""

\* the fetchData calls of one run
MaxPolls == 2
Polls == 1..MaxPolls

\* useState / useRef initial values of usePolling
Mounted(snapshot) ==
    [data |-> snapshot, isLoading |-> FALSE, error |-> NoError,
     lastUpdated |-> snapshot.fetchedAt]

PollingIdle ==
    /\ initialData = Snapshot0
    /\ onDataUpdate = TRUE
    /\ hookState = Mounted(Snapshot0)
    /\ queuedState = Mounted(Snapshot0)
    /\ prevDataRef = Snapshot0
    /\ polls = [k \in Polls |-> "idle"]
    /\ updates = <<>>
    /\ clock = 0

OffersIdle ==
    /\ offers = <<>>
    /\ offerNo = 0
    /\ tradeMap = NoTrades

PAGE_SIZE_OPTIONS == {10, 25, 50, 100}
DEFAULT_PAGE_SIZE == 25

\* useState initial values of usePagination
FirstPage == [currentPage |-> 1, pageSize |-> DEFAULT_PAGE_SIZE, totalItems |-> 0]

PaginationIdle ==
    /\ pagination = FirstPage
    /\ queuedPagination = FirstPage
    /\ itemsLength = 0
    /\ effectPending = FALSE

Clients == {"tokens", "markets", "pairs"}
NoResponse == [status |-> "none"]

EnvelopesIdle == responses = [c \in Clients |-> NoResponse]

ModulesIdle ==
    /\ OffersIdle
    /\ PollingIdle
    /\ PaginationIdle
    /\ EnvelopesIdle

OracleIdle ==
    /\ ModulesIdle
    /\ requests = [u \in Upstreams |-> NoRequest]
    /\ cachedPrice = NullCache
    /\ now = 0
    /\ calls = [c \in Calls |-> IdleCall]
    /\ microtasks = <<>>
    /\ completed = <<>>
    /\ written = <<>>
    /\ lastRead = Null

(***************************************************************************)
(* mergeTokensAndMarkets called on its own, on every bounded input.        *)
(***************************************************************************)
MergeInit ==
    /\ tokens \in BSeq(TokenCatalogue, MaxInputs)
    /\ markets \in BSeq(MarketCatalogue, MaxInputs - Len(tokens))
    /\ tibetSwapPairs \in BSeq(PairCatalogue, MaxInputs - Len(tokens) - Len(markets))
    /\ lastTradePrices \in TradeMaps
    /\ xchUsdPrice \in FiatRates
    /\ dashboardTokens = <<>>
    /\ processedIds = {}
    /\ pc = "markets"
    /\ OracleIdle
    /\ tokensResult = NotCalled
    /\ marketsResult = NotCalled
    /\ tibetSwapResult = NotCalled
    /\ lastTradePricesResult = NotCalled
    /\ xchPriceResult = NotCalled
    /\ result = NotCalled
    /\ safeResult = NotCalled

inputVars == <<tokens, markets, xchUsdPrice, tibetSwapPairs, lastTradePrices>>

\* transform.ts 195-202
MergeMarkets ==
    /\ pc = "markets"
    /\ LET st == MarketsPass(1, markets, tokens, xchUsdPrice, tibetSwapPairs,
                             [out |-> dashboardTokens, processed |-> processedIds])
       IN  /\ dashboardTokens' = st.out
           /\ processedIds' = st.processed
    /\ pc' = "pairs"
    /\ UNCHANGED clientVars
    /\ UNCHANGED <<inputVars, fetchVars, result, safeResult>>

\* transform.ts 204-214
MergePairs ==
    /\ pc = "pairs"
    /\ LET st == PairsPass(1, tibetSwapPairs, tokens, xchUsdPrice,
                           [out |-> dashboardTokens, processed |-> processedIds])
       IN  /\ dashboardTokens' = st.out
           /\ processedIds' = st.processed
    /\ pc' = "tokens"
    /\ UNCHANGED clientVars
    /\ UNCHANGED <<inputVars, fetchVars, result, safeResult>>

\* transform.ts 216-272
MergeTokens ==
    /\ pc = "tokens"
    /\ LET st == TokensPass(1, tokens, lastTradePrices, xchUsdPrice,
                            [out |-> dashboardTokens, processed |-> processedIds])
       IN  /\ dashboardTokens' = st.out
           /\ processedIds' = st.processed
    /\ pc' = "sort"
    /\ UNCHANGED clientVars
    /\ UNCHANGED <<inputVars, fetchVars, result, safeResult>>

\* transform.ts 274-285
MergeSort ==
    /\ pc = "sort"
    /\ dashboardTokens' = SortTokens(dashboardTokens)
    /\ pc' = "returned"
    /\ UNCHANGED clientVars
    /\ UNCHANGED <<inputVars, processedIds, fetchVars, result, safeResult>>

MergeNext == MergeMarkets \/ MergePairs \/ MergeTokens \/ MergeSort

MergeSpec == MergeInit /\ [][MergeNext]_vars

(***************************************************************************)
(* fetchDashboardDataSafe -> fetchDashboardData.  The five fetches are in  *)
(* flight together and settle in any order; each source client catches its *)
(* own errors and resolves to a Result.  What a successful fetch delivers  *)
(* is drawn from the responses below.                                      *)
(* The catch of fetchDashboardData (data-fetcher.ts 76-84) is not an       *)
(* action: no callee rejects, and the merge does not throw on data of the  *)
(* declared types.                                                         *)
(***************************************************************************)
Success(data) == [status |-> "success", data |-> data]
Failure(error) == [status |-> "failure", error |-> error]

TokenResponses  == {<<TokenA>>, <<TokenB, TokenA2>>}
MarketResponses == {<<MarketA>>, <<MarketAZero, MarketB>>}
PairResponses   == {<<PairA>>, <<PairB, PairAEmpty>>}
TradeResponses  == {TradesA, TradesABC}

FetchInit ==
    /\ tokens = <<>>
    /\ markets = <<>>
    /\ tibetSwapPairs = <<>>
    /\ lastTradePrices = NoTrades
    /\ xchUsdPrice = Zero
    /\ dashboardTokens = <<>>
    /\ processedIds = {}
    /\ pc = "await"
    /\ OracleIdle
    /\ tokensResult = Pending
    /\ marketsResult = Pending
    /\ tibetSwapResult = Pending
    /\ lastTradePricesResult = Pending
    /\ xchPriceResult = Pending
    /\ result = Pending
    /\ safeResult = Pending

\* dexie-api.ts fetchTokens
FetchTokens ==
    /\ tokensResult = Pending
    /\ \/ \E d \in TokenResponses : tokensResult' = Success(d)
       \/ tokensResult' = Failure("tokens")
    /\ UNCHANGED clientVars
    /\ UNCHANGED <<mergeVars, marketsResult, tibetSwapResult, lastTradePricesResult,
                   xchPriceResult, result, safeResult>>

\* dexie-api.ts fetchMarkets
FetchMarkets ==
    /\ marketsResult = Pending
    /\ \/ \E d \in MarketResponses : marketsResult' = Success(d)
       \/ marketsResult' = Failure("markets")
    /\ UNCHANGED clientVars
    /\ UNCHANGED <<mergeVars, tokensResult, tibetSwapResult, lastTradePricesResult,
                   xchPriceResult, result, safeResult>>

\* tibetswap-api.ts fetchTibetSwapPairs
FetchTibetSwapPairs ==
    /\ tibetSwapResult = Pending
    /\ \/ \E d \in PairResponses : tibetSwapResult' = Success(d)
       \/ tibetSwapResult' = Failure("tibetswap")
    /\ UNCHANGED clientVars
    /\ UNCHANGED <<mergeVars, tokensResult, marketsResult, lastTradePricesResult,
                   xchPriceResult, result, safeResult>>

\* last-trade-prices.ts fetchLastTradePrices
FetchLastTradePrices ==
    /\ lastTradePricesResult = Pending
    /\ \/ \E d \in TradeResponses : lastTradePricesResult' = Success(d)
       \/ lastTradePricesResult' = Failure("offers")
    /\ UNCHANGED clientVars
    /\ UNCHANGED <<mergeVars, tokensResult, marketsResult, tibetSwapResult,
                   xchPriceResult, result, safeResult>>

\* xch-price.ts fetchXchUsdPrice: every path returns success
FetchXchUsdPrice ==
    /\ xchPriceResult = Pending
    /\ \E d \in FiatRates : xchPriceResult' = Success(d)
    /\ UNCHANGED clientVars
    /\ UNCHANGED <<mergeVars, tokensResult, marketsResult, tibetSwapResult,
                   lastTradePricesResult, result, safeResult>>

\* AllSettled giving way as soon as the tokens fetch has failed
AllSettledOrTokensFailed ==
    \/ tokensResult.status = "failure"
    \/ /\ tokensResult # Pending
       /\ marketsResult # Pending
       /\ tibetSwapResult # Pending
       /\ lastTradePricesResult # Pending
       /\ xchPriceResult # Pending

\* Promise.all has resolved
AllSettled ==
    /\ tokensResult # Pending
    /\ marketsResult # Pending
    /\ tibetSwapResult # Pending
    /\ lastTradePricesResult # Pending
    /\ xchPriceResult # Pending

\* CriticalFailure testing the markets result before the tokens result
CriticalFailureMarketsFirst ==
    /\ pc = "await"
    /\ AllSettled
    /\ \/ /\ marketsResult.status # "success"
          /\ result' = Failure(marketsResult.error)
       \/ /\ marketsResult.status = "success"
          /\ tokensResult.status # "success"
          /\ result' = Failure(tokensResult.error)
    /\ pc' = "failed"
    /\ UNCHANGED clientVars
    /\ UNCHANGED <<inputVars, dashboardTokens, processedIds, fetchVars, safeResult>>

\* CriticalFailure treating every failed source as critical
CriticalFailureAnySource ==
    /\ pc = "await"
    /\ AllSettled
    /\ \/ tokensResult.status # "success" /\ result' = Failure(tokensResult.error)
       \/ marketsResult.status # "success" /\ result' = Failure(marketsResult.error)
       \/ tibetSwapResult.status # "success" /\ result' = Failure(tibetSwapResult.error)
       \/ /\ lastTradePricesResult.status # "success"
          /\ result' = Failure(lastTradePricesResult.error)
    /\ pc' = "failed"
    /\ UNCHANGED clientVars
    /\ UNCHANGED <<inputVars, dashboardTokens, processedIds, fetchVars, safeResult>>

\* data-fetcher.ts 35-48: a failed tokens or markets fetch is returned as is
CriticalFailure ==
    /\ pc = "await"
    /\ AllSettled
    /\ \/ /\ tokensResult.status # "success"
          /\ result' = Failure(tokensResult.error)
       \/ /\ tokensResult.status = "success"
          /\ marketsResult.status # "success"
          /\ result' = Failure(marketsResult.error)
    /\ pc' = "failed"
    /\ UNCHANGED clientVars
    /\ UNCHANGED <<inputVars, dashboardTokens, processedIds, fetchVars, safeResult>>

\* data-fetcher.ts 50-66: the arguments handed to mergeTokensAndMarkets
CallMerge ==
    /\ pc = "await"
    /\ AllSettled
    /\ tokensResult.status = "success"
    /\ marketsResult.status = "success"
    /\ tokens' = tokensResult.data
    /\ markets' = marketsResult.data
    /\ xchUsdPrice' = IF xchPriceResult.status = "success" THEN xchPriceResult.data
                      ELSE Num(25)
    /\ tibetSwapPairs' = IF tibetSwapResult.status = "success" THEN tibetSwapResult.data
                         ELSE <<>>
    /\ lastTradePrices' = IF lastTradePricesResult.status = "success"
                          THEN lastTradePricesResult.data ELSE NoTrades
    /\ pc' = "markets"
    /\ UNCHANGED clientVars
    /\ UNCHANGED <<dashboardTokens, processedIds, fetchVars, result, safeResult>>

\* data-fetcher.ts 68-75
ReturnDashboard ==
    /\ pc = "returned"
    /\ result = Pending
    /\ result' = Success([tokens |-> dashboardTokens, xchPriceUsd |-> xchUsdPrice,
                          fetchedAt |-> "now", isStale |-> FALSE])
    /\ UNCHANGED clientVars
    /\ UNCHANGED <<mergeVars, fetchVars, safeResult>>

\* FetchDashboardDataSafe handing out the empty state as fresh
FetchDashboardDataSafeNotStale ==
    /\ result.status \in {"success", "failure"}
    /\ safeResult = Pending
    /\ safeResult' = IF result.status = "success" THEN result.data
                     ELSE [tokens |-> <<>>, xchPriceUsd |-> Num(25),
                           fetchedAt |-> "now", isStale |-> FALSE]
    /\ UNCHANGED clientVars
    /\ UNCHANGED <<mergeVars, fetchVars, result>>

\* data-fetcher.ts 93-109
FetchDashboardDataSafe ==
    /\ result.status \in {"success", "failure"}
    /\ safeResult = Pending
    /\ safeResult' = IF result.status = "success" THEN result.data
                     ELSE [tokens |-> <<>>, xchPriceUsd |-> Num(25),
                           fetchedAt |-> "now", isStale |-> TRUE]
    /\ UNCHANGED clientVars
    /\ UNCHANGED <<mergeVars, fetchVars, result>>

FetchNext ==
    \/ FetchTokens \/ FetchMarkets \/ FetchTibetSwapPairs \/ FetchLastTradePrices
    \/ FetchXchUsdPrice
    \/ CriticalFailure \/ CallMerge
    \/ MergeMarkets \/ MergePairs \/ MergeTokens \/ MergeSort
    \/ ReturnDashboard \/ FetchDashboardDataSafe

FetchSpec == FetchInit /\ [][FetchNext]_vars

(***************************************************************************)
(* fetchXchUsdPrice (xch-price.ts).  Calls may overlap.  A call runs from  *)
(* one await to the next without interruption; a call whose awaited fetch  *)
(* has resolved is resumed from the microtask queue, oldest first.         *)
(***************************************************************************)
\* what an upstream hands back: fetch throws, a non-2xx status, or a body
\* with the value found at the price path
NetworkError == [thrown |-> TRUE,  ok |-> FALSE, usd |-> Undefined]
HttpError    == [thrown |-> FALSE, ok |-> FALSE, usd |-> Undefined]
Body(usd)    == [thrown |-> FALSE, ok |-> TRUE,  usd |-> usd]

CoinGeckoResponses ==
    {NetworkError, HttpError, Body(Undefined), Body(NaN), Body(Number(Zero)),
     Body(Number(Num(30))), Body(Number(Num(31))), Body(Infinity)}
DexieRatesResponses ==
    {NetworkError, HttpError, Body(Undefined), Body(Number(Num(-1))),
     Body(Number(Num(28)))}

\* typeof price === 'number' && price > 0
IsPositiveNumber(price) ==
    \/ price.kind = "Infinity"
    \/ price.kind = "number" /\ Gt(price.v, Zero)

\* if (price) for a `number | null`
Truthy(price) ==
    \/ price.kind = "Infinity"
    \/ price.kind = "number" /\ price.v # Zero

fetchFromCoinGecko(response) ==
    IF response.thrown THEN Null
    ELSE IF ~response.ok THEN Null
    ELSE IF IsPositiveNumber(response.usd) THEN response.usd
    ELSE Null

\* fetchFromDexieRates without the `price > 0` test
fetchFromDexieRatesAnySign(response) ==
    IF response.thrown THEN Null
    ELSE IF ~response.ok THEN Null
    ELSE IF response.usd.kind \in {"number", "NaN", "Infinity"} THEN response.usd
    ELSE Null

fetchFromDexieRates(response) ==
    IF response.thrown THEN Null
    ELSE IF ~response.ok THEN Null
    ELSE IF IsPositiveNumber(response.usd) THEN response.usd
    ELSE Null

\* cachedPrice && Date.now() - cachedPrice.timestamp < CACHE_TTL
IsFresh == cachedPrice # NullCache /\ now - cachedPrice.timestamp < CACHE_TTL

Fetched(c, source, price) == [call |-> c, source |-> source, value |-> price]

OracleInit ==
    /\ tokens = <<>>
    /\ markets = <<>>
    /\ tibetSwapPairs = <<>>
    /\ lastTradePrices = NoTrades
    /\ xchUsdPrice = Zero
    /\ dashboardTokens = <<>>
    /\ processedIds = {}
    /\ pc = "oracle"
    /\ tokensResult = NotCalled
    /\ marketsResult = NotCalled
    /\ tibetSwapResult = NotCalled
    /\ lastTradePricesResult = NotCalled
    /\ xchPriceResult = NotCalled
    /\ result = NotCalled
    /\ safeResult = NotCalled
    /\ OracleIdle

dashboardVars == <<mergeVars, fetchVars, result, safeResult, requests, moduleVars>>

\* Date.now() moves on
Tick ==
    /\ now < MaxTicks * TickMs
    /\ now' = now + TickMs
    /\ UNCHANGED <<cachedPrice, calls, microtasks, completed, written, lastRead, dashboardVars>>

\* Invoke never answering from the cache
InvokeAlwaysFetches(c) ==
    /\ calls[c].pc = "idle"
    /\ calls' = [calls EXCEPT ![c] =
                   [@ EXCEPT !.pc = "coingecko", !.issued = {"coingecko"}]]
    /\ UNCHANGED <<cachedPrice, now, microtasks, completed, written, lastRead, dashboardVars>>

\* part_002 497-503: the call up to its first await
Invoke(c) ==
    /\ calls[c].pc = "idle"
    /\ calls' = [calls EXCEPT ![c] =
                   IF IsFresh
                   THEN [@ EXCEPT !.pc = "returned", !.branch = "cache",
                                  !.ret = Success(cachedPrice.value)]
                   ELSE [@ EXCEPT !.pc = "coingecko", !.issued = {"coingecko"}]]
    /\ UNCHANGED <<cachedPrice, now, microtasks, completed, written, lastRead, dashboardVars>>

\* part_002 433-457: the primary fetch of call c resolves
CoinGeckoSettles(c) ==
    /\ calls[c].pc = "coingecko"
    /\ \E response \in CoinGeckoResponses :
         LET price == fetchFromCoinGecko(response) IN
         /\ calls' = [calls EXCEPT ![c] = [@ EXCEPT !.pc = "afterCoinGecko",
                                                    !.price = price]]
         /\ completed' = IF price # Null
                         THEN Append(completed, Fetched(c, "coingecko", price))
                         ELSE completed
    /\ microtasks' = Append(microtasks, c)
    /\ UNCHANGED <<cachedPrice, now, written, lastRead, dashboardVars>>

\* ResumeAfterCoinGecko resuming a call ahead of calls that resolved earlier
ResumeAfterCoinGeckoOutOfTurn(c) ==
    /\ \E i \in DOMAIN microtasks : microtasks[i] = c
    /\ calls[c].pc = "afterCoinGecko"
    /\ microtasks' = SelectSeq(microtasks, LAMBDA x : x # c)
    /\ IF Truthy(calls[c].price)
       THEN /\ cachedPrice' = [value |-> calls[c].price, timestamp |-> now]
            /\ written' = Append(written, Fetched(c, "coingecko", calls[c].price))
            /\ calls' = [calls EXCEPT ![c] =
                           [@ EXCEPT !.pc = "returned", !.branch = "coingecko",
                                     !.ret = Success(calls[c].price)]]
       ELSE /\ calls' = [calls EXCEPT ![c] =
                           [@ EXCEPT !.pc = "dexie",
                                     !.issued = @ \cup {"dexie"}]]
            /\ UNCHANGED <<cachedPrice, written>>
    /\ UNCHANGED <<now, completed, lastRead, dashboardVars>>

\* ResumeAfterCoinGecko falling back on the cached pair before the secondary
\* oracle has been tried
ResumeAfterCoinGeckoSkipsSecondary(c) ==
    /\ microtasks # <<>>
    /\ Head(microtasks) = c
    /\ calls[c].pc = "afterCoinGecko"
    /\ microtasks' = Tail(microtasks)
    /\ IF Truthy(calls[c].price)
       THEN /\ cachedPrice' = [value |-> calls[c].price, timestamp |-> now]
            /\ written' = Append(written, Fetched(c, "coingecko", calls[c].price))
            /\ calls' = [calls EXCEPT ![c] =
                           [@ EXCEPT !.pc = "returned", !.branch = "coingecko",
                                     !.ret = Success(calls[c].price)]]
       ELSE /\ calls' = [calls EXCEPT ![c] =
                           IF cachedPrice # NullCache
                           THEN [@ EXCEPT !.pc = "returned", !.branch = "expired",
                                          !.ret = Success(cachedPrice.value)]
                           ELSE [@ EXCEPT !.pc = "dexie",
                                          !.issued = @ \cup {"dexie"}]]
            /\ UNCHANGED <<cachedPrice, written>>
    /\ UNCHANGED <<now, completed, lastRead, dashboardVars>>

\* part_002 503-510: call c resumes with coinGeckoPrice
ResumeAfterCoinGecko(c) ==
    /\ microtasks # <<>>
    /\ Head(microtasks) = c
    /\ calls[c].pc = "afterCoinGecko"
    /\ microtasks' = Tail(microtasks)
    /\ IF Truthy(calls[c].price)
       THEN /\ cachedPrice' = [value |-> calls[c].price, timestamp |-> now]
            /\ written' = Append(written, Fetched(c, "coingecko", calls[c].price))
            /\ calls' = [calls EXCEPT ![c] =
                           [@ EXCEPT !.pc = "returned", !.branch = "coingecko",
                                     !.ret = Success(calls[c].price)]]
       ELSE /\ calls' = [calls EXCEPT ![c] =
                           [@ EXCEPT !.pc = "dexie",
                                     !.issued = @ \cup {"dexie"}]]
            /\ UNCHANGED <<cachedPrice, written>>
    /\ UNCHANGED <<now, completed, lastRead, dashboardVars>>

\* part_002 463-484: the secondary fetch of call c resolves
DexieRatesSettles(c) ==
    /\ calls[c].pc = "dexie"
    /\ \E response \in DexieRatesResponses :
         LET price == fetchFromDexieRates(response) IN
         /\ calls' = [calls EXCEPT ![c] = [@ EXCEPT !.pc = "afterDexie",
                                                    !.price = price]]
         /\ completed' = IF price # Null
                         THEN Append(completed, Fetched(c, "dexie", price))
                         ELSE completed
    /\ microtasks' = Append(microtasks, c)
    /\ UNCHANGED <<cachedPrice, now, written, lastRead, dashboardVars>>

\* ResumeAfterDexieRates reporting a failure when nothing is cached
ResumeAfterDexieRatesNoFallback(c) ==
    /\ microtasks # <<>>
    /\ Head(microtasks) = c
    /\ calls[c].pc = "afterDexie"
    /\ microtasks' = Tail(microtasks)
    /\ IF Truthy(calls[c].price)
       THEN /\ cachedPrice' = [value |-> calls[c].price, timestamp |-> now]
            /\ written' = Append(written, Fetched(c, "dexie", calls[c].price))
            /\ calls' = [calls EXCEPT ![c] =
                           [@ EXCEPT !.pc = "returned", !.branch = "dexie",
                                     !.ret = Success(calls[c].price)]]
       ELSE /\ calls' = [calls EXCEPT ![c] =
                           IF cachedPrice # NullCache
                           THEN [@ EXCEPT !.pc = "returned", !.branch = "expired",
                                          !.ret = Success(cachedPrice.value)]
                           ELSE [@ EXCEPT !.pc = "returned", !.branch = "fallback",
                                          !.ret = Failure("oracle")]]
            /\ UNCHANGED <<cachedPrice, written>>
    /\ UNCHANGED <<now, completed, lastRead, dashboardVars>>

\* ResumeAfterDexieRates storing the fallback constant in the cache
ResumeAfterDexieRatesCachesFallback(c) ==
    /\ microtasks # <<>>
    /\ Head(microtasks) = c
    /\ calls[c].pc = "afterDexie"
    /\ microtasks' = Tail(microtasks)
    /\ IF Truthy(calls[c].price)
       THEN /\ cachedPrice' = [value |-> calls[c].price, timestamp |-> now]
            /\ written' = Append(written, Fetched(c, "dexie", calls[c].price))
            /\ calls' = [calls EXCEPT ![c] =
                           [@ EXCEPT !.pc = "returned", !.branch = "dexie",
                                     !.ret = Success(calls[c].price)]]
       ELSE /\ calls' = [calls EXCEPT ![c] =
                           IF cachedPrice # NullCache
                           THEN [@ EXCEPT !.pc = "returned", !.branch = "expired",
                                          !.ret = Success(cachedPrice.value)]
                           ELSE [@ EXCEPT !.pc = "returned", !.branch = "fallback",
                                          !.ret = Success(Number(Num(FALLBACK_XCH_USD)))]]
            /\ cachedPrice' = IF cachedPrice # NullCache THEN cachedPrice
                              ELSE [value |-> Number(Num(FALLBACK_XCH_USD)),
                                    timestamp |-> now]
            /\ UNCHANGED written
    /\ UNCHANGED <<now, completed, lastRead, dashboardVars>>

\* part_002 510-526: call c resumes with dexiePrice
ResumeAfterDexieRates(c) ==
    /\ microtasks # <<>>
    /\ Head(microtasks) = c
    /\ calls[c].pc = "afterDexie"
    /\ microtasks' = Tail(microtasks)
    /\ IF Truthy(calls[c].price)
       THEN /\ cachedPrice' = [value |-> calls[c].price, timestamp |-> now]
            /\ written' = Append(written, Fetched(c, "dexie", calls[c].price))
            /\ calls' = [calls EXCEPT ![c] =
                           [@ EXCEPT !.pc = "returned", !.branch = "dexie",
                                     !.ret = Success(calls[c].price)]]
       ELSE /\ calls' = [calls EXCEPT ![c] =
                           IF cachedPrice # NullCache
                           THEN [@ EXCEPT !.pc = "returned", !.branch = "expired",
                                          !.ret = Success(cachedPrice.value)]
                           ELSE [@ EXCEPT !.pc = "returned", !.branch = "fallback",
                                          !.ret = Success(Number(Num(FALLBACK_XCH_USD)))]]
            /\ UNCHANGED <<cachedPrice, written>>
    /\ UNCHANGED <<now, completed, lastRead, dashboardVars>>

\* part_002 532-534: getCachedXchPrice
GetCachedXchPrice ==
    /\ lastRead' = IF cachedPrice # NullCache THEN cachedPrice.value
                   ELSE Number(Num(FALLBACK_XCH_USD))
    /\ UNCHANGED <<cachedPrice, now, calls, microtasks, completed, written, dashboardVars>>

OracleNext ==
    \/ Tick
    \/ GetCachedXchPrice
    \/ \E c \in Calls : Invoke(c)
    \/ \E c \in Calls : CoinGeckoSettles(c)
    \/ \E c \in Calls : ResumeAfterCoinGecko(c)
    \/ \E c \in Calls : DexieRatesSettles(c)
    \/ \E c \in Calls : ResumeAfterDexieRates(c)

OracleSpec == OracleInit /\ [][OracleNext]_vars

(***************************************************************************)
(* The requests of one fetchDashboardData call at the level of HTTP.  An   *)
(* upstream either answers every attempt (with a 2xx status, a non-2xx     *)
(* status or a network error) or never answers at all.                     *)
(***************************************************************************)
\* the first attempt, as issued by the source client
FirstAttempt(u, silent) ==
    [state |-> "inflight", silent |-> silent,
     retries |-> IF u \in Retried THEN MAX_RETRIES ELSE 0,
     attempts |-> 1,
     timer |-> IF u \in Retried THEN Timer ELSE NoTimer,
     waits |-> <<>>]

HttpInit ==
    /\ tokens = <<>>
    /\ markets = <<>>
    /\ tibetSwapPairs = <<>>
    /\ lastTradePrices = NoTrades
    /\ xchUsdPrice = Zero
    /\ dashboardTokens = <<>>
    /\ processedIds = {}
    /\ pc = "http"
    /\ tokensResult = Pending
    /\ marketsResult = Pending
    /\ tibetSwapResult = Pending
    /\ lastTradePricesResult = Pending
    /\ xchPriceResult = Pending
    /\ result = Pending
    /\ safeResult = Pending
    /\ cachedPrice = NullCache
    /\ now = 0
    /\ calls = [c \in Calls |-> IdleCall]
    /\ microtasks = <<>>
    /\ completed = <<>>
    /\ written = <<>>
    /\ lastRead = Null
    /\ ModulesIdle
    /\ \E silent \in [Upstreams -> BOOLEAN] :
         requests = [u \in Upstreams |-> FirstAttempt(u, silent[u])]

\* BackoffDelay counting down instead of up
BackoffDelayCountdown(retries) == retries * 1000

\* dexie-api.ts 49
BackoffDelay(retries) == (MAX_RETRIES - retries + 1) * 1000

\* dexie-api.ts 44-55: the catch block of fetchWithRetry
Catch(r) ==
    IF r.retries > 0
    THEN [r EXCEPT !.state = "backoff", !.timer = NoTimer,
                   !.waits = Append(@, BackoffDelay(r.retries))]
    ELSE [r EXCEPT !.state = "rejected", !.timer = NoTimer]

httpFrame == <<mergeVars, fetchVars, result, safeResult, oracleVars, moduleVars>>

\* dexie-api.ts 32-43: the upstream answers an attempt of fetchWithRetry
RetryResponse(u) ==
    /\ u \in Retried
    /\ requests[u].state = "inflight"
    /\ ~requests[u].silent
    /\ \E ok \in BOOLEAN :
         requests' = [requests EXCEPT ![u] =
                        IF ok THEN [@ EXCEPT !.state = "resolved", !.timer = NoTimer]
                        ELSE Catch(@)]
    /\ UNCHANGED httpFrame

\* dexie-api.ts 32, 44: fetch rejects with a network error
RetryNetworkError(u) ==
    /\ u \in Retried
    /\ requests[u].state = "inflight"
    /\ ~requests[u].silent
    /\ requests' = [requests EXCEPT ![u] = Catch(@)]
    /\ UNCHANGED httpFrame

\* dexie-api.ts 29: the timer fires, controller.abort() makes fetch reject
RetryTimeout(u) ==
    /\ u \in Retried
    /\ requests[u].state = "inflight"
    /\ requests[u].timer.armed
    /\ requests' = [requests EXCEPT ![u] = Catch(@)]
    /\ UNCHANGED httpFrame

\* dexie-api.ts 50-51, 28-29: the delay is over, fetchWithRetry(retries - 1)
RetryDelayElapses(u) ==
    /\ u \in Retried
    /\ requests[u].state = "backoff"
    /\ requests' = [requests EXCEPT ![u] =
                      [@ EXCEPT !.state = "inflight", !.retries = @ - 1,
                                !.attempts = @ + 1, !.timer = Timer]]
    /\ UNCHANGED httpFrame

\* tibetswap-api.ts 35-41, last-trade-prices.ts, xch-price.ts: a plain fetch
\* settles, with a 2xx status or with an error the client turns into its
\* failure value
PlainFetchSettles(u) ==
    /\ u \notin Retried
    /\ requests[u].state = "inflight"
    /\ ~requests[u].silent
    /\ \E ok \in BOOLEAN :
         requests' = [requests EXCEPT ![u] =
                        [@ EXCEPT !.state = IF ok THEN "resolved" ELSE "rejected"]]
    /\ UNCHANGED httpFrame

HttpNext ==
    \/ \E u \in Upstreams : RetryResponse(u)
    \/ \E u \in Upstreams : RetryNetworkError(u)
    \/ \E u \in Upstreams : RetryTimeout(u)
    \/ \E u \in Upstreams : RetryDelayElapses(u)
    \/ \E u \in Upstreams : PlainFetchSettles(u)

HttpSpec == HttpInit /\ [][HttpNext]_vars

(***************************************************************************)
(* fetchLastTradePrices (last-trade-prices.ts): the response to the offers *)
(* request and the loop over its offers.  An offer is { date_completed,    *)
(* offered, requested }, an asset { id, code, amount }; date_completed =   *)
(* null is the empty string.  The map entries are { priceXch, date }; the  *)
(* third field, tokenSymbol, is read by nothing.                           *)
(***************************************************************************)
Asset(id, amount) == [id |-> id, code |-> id, amount |-> amount]
Xch(amount) == Asset("xch", amount)
Offer(date, offered, requested) ==
    [date_completed |-> date, offered |-> offered, requested |-> requested]

OfferCatalogue ==
    { Offer("d1", <<Asset("A", Num(4))>>, <<Xch(Num(2))>>),
      Offer("d2", <<Xch(Num(3))>>, <<Asset("A", Num(4))>>),
      Offer("",   <<Asset("B", Num(1))>>, <<Xch(Num(5))>>),
      Offer("d4", <<Asset("A", Num(1))>>, <<Asset("B", Num(2))>>),
      Offer("d5", <<Asset("B", Zero)>>, <<Xch(Num(1))>>),
      Offer("d6", <<Xch(Zero)>>, <<Asset("B", Num(2))>>),
      Offer("d7", <<Xch(Num(1))>>, <<Xch(Num(2))>>),
      Offer("d8", <<Asset("B", Num(2))>>, <<Xch(Num(6))>>) }

\* the offers of one response
MaxOffers == 3

\* part_001 52-55
NoLegs == [tokenId |-> "", tokenAmount |-> Zero, xchAmount |-> Zero]

\* part_001 58-66 and 69-77: one pass over a list of assets
RECURSIVE ScanAssets(_, _)
ScanAssets(assets, legs) ==
    IF assets = <<>> THEN legs
    ELSE ScanAssets(Tail(assets),
             IF Head(assets).id = "xch"
             THEN [legs EXCEPT !.xchAmount = Head(assets).amount]
             ELSE [legs EXCEPT !.tokenId = Head(assets).id,
                               !.tokenAmount = Head(assets).amount])

OfferLegs(offer) == ScanAssets(offer.requested, ScanAssets(offer.offered, NoLegs))

\* OfferStep letting a later offer replace the entry of its token
OfferStepLastWins(offer, map) ==
    IF offer.date_completed = "" THEN map
    ELSE LET legs == OfferLegs(offer) IN
         IF legs.tokenId = "" \/ legs.tokenAmount = Zero \/ legs.xchAmount = Zero
         THEN map
         ELSE [id \in DOMAIN map \cup {legs.tokenId} |->
                  IF id = legs.tokenId
                  THEN [priceXch |-> Div(legs.xchAmount, legs.tokenAmount),
                        date |-> offer.date_completed]
                  ELSE map[id]]

\* OfferStep taking offers that have no completion date
OfferStepIgnoresDate(offer, map) ==
    LET legs == OfferLegs(offer) IN
    IF legs.tokenId = "" \/ legs.tokenAmount = Zero \/ legs.xchAmount = Zero
    THEN map
    ELSE IF legs.tokenId \in DOMAIN map THEN map
    ELSE [id \in DOMAIN map \cup {legs.tokenId} |->
             IF id = legs.tokenId
             THEN [priceXch |-> Div(legs.xchAmount, legs.tokenAmount),
                   date |-> offer.date_completed]
             ELSE map[id]]

\* part_001 48-94: one iteration of the loop
OfferStep(offer, map) ==
    IF offer.date_completed = "" THEN map
    ELSE LET legs == OfferLegs(offer) IN
         IF legs.tokenId = "" \/ legs.tokenAmount = Zero \/ legs.xchAmount = Zero
         THEN map
         ELSE IF legs.tokenId \in DOMAIN map THEN map
         ELSE [id \in DOMAIN map \cup {legs.tokenId} |->
                  IF id = legs.tokenId
                  THEN [priceXch |-> Div(legs.xchAmount, legs.tokenAmount),
                        date |-> offer.date_completed]
                  ELSE map[id]]

OffersInit ==
    /\ tokens = <<>>
    /\ markets = <<>>
    /\ tibetSwapPairs = <<>>
    /\ lastTradePrices = NoTrades
    /\ xchUsdPrice = Zero
    /\ dashboardTokens = <<>>
    /\ processedIds = {}
    /\ pc = "offers"
    /\ tokensResult = NotCalled
    /\ marketsResult = NotCalled
    /\ tibetSwapResult = NotCalled
    /\ lastTradePricesResult = Pending
    /\ xchPriceResult = NotCalled
    /\ result = NotCalled
    /\ safeResult = NotCalled
    /\ OracleIdle

offersFrame == <<mergeVars, tokensResult, marketsResult, tibetSwapResult,
                 xchPriceResult, result, safeResult, oracleVars, requests,
                 pollVars, pageVars, envelopeVars>>

\* part_001 33-46, 97-103: the response arrives; a non-2xx status or a network
\* error ends the call with a failure
OffersRespond ==
    /\ lastTradePricesResult = Pending
    /\ offerNo = 0
    /\ \/ /\ \E body \in BSeq(OfferCatalogue, MaxOffers) : offers' = body
          /\ offerNo' = 1
          /\ tradeMap' = NoTrades
          /\ UNCHANGED lastTradePricesResult
       \/ /\ lastTradePricesResult' = Failure("offers")
          /\ UNCHANGED offerVars
    /\ UNCHANGED offersFrame

\* part_001 48-94
OffersLoop ==
    /\ lastTradePricesResult = Pending
    /\ offerNo \in 1..Len(offers)
    /\ tradeMap' = OfferStep(offers[offerNo], tradeMap)
    /\ offerNo' = offerNo + 1
    /\ UNCHANGED <<offers, lastTradePricesResult, offersFrame>>

\* part_001 96
OffersReturn ==
    /\ lastTradePricesResult = Pending
    /\ offerNo = Len(offers) + 1
    /\ lastTradePricesResult' = Success(tradeMap)
    /\ UNCHANGED <<offerVars, offersFrame>>

OffersNext == OffersRespond \/ OffersLoop \/ OffersReturn

OffersSpec == OffersInit /\ [][OffersNext]_vars

(***************************************************************************)
(* usePolling.  A set-call of a useState value does not change the value   *)
(* the component has rendered: it queues the new value, and the next       *)
(* render takes it.  hookState is what the last render returned,           *)
(* queuedState what the next one will return.  Each fetchData call runs    *)
(* up to its first await when it is started and from one await to the next *)
(* when the awaited promise settles.                                       *)
(***************************************************************************)
DEFAULT_INTERVAL == 30000

\* the bodies /api/dashboard can answer with: { success, data?, error? }
NoData == Snapshot(0, "")
PollBody(success, data, error) == [success |-> success, data |-> data, error |-> error]
PollBodies ==
    {PollBody(TRUE, Snapshot1, ""), PollBody(TRUE, Snapshot2, ""),
     PollBody(TRUE, NoData, ""), PollBody(FALSE, NoData, "upstream down"),
     PollBody(FALSE, NoData, "")}

AggregationIdle ==
    /\ tokens = <<>>
    /\ markets = <<>>
    /\ tibetSwapPairs = <<>>
    /\ lastTradePrices = NoTrades
    /\ xchUsdPrice = Zero
    /\ dashboardTokens = <<>>
    /\ processedIds = {}
    /\ pc = "idle"
    /\ tokensResult = NotCalled
    /\ marketsResult = NotCalled
    /\ tibetSwapResult = NotCalled
    /\ lastTradePricesResult = NotCalled
    /\ xchPriceResult = NotCalled
    /\ result = NotCalled
    /\ safeResult = NotCalled

\* the hook as mounted by the page, with or without the callback
PollInit ==
    /\ AggregationIdle
    /\ requests = [u \in Upstreams |-> NoRequest]
    /\ cachedPrice = NullCache
    /\ now = 0
    /\ calls = [c \in Calls |-> IdleCall]
    /\ microtasks = <<>>
    /\ completed = <<>>
    /\ written = <<>>
    /\ lastRead = Null
    /\ OffersIdle
    /\ PaginationIdle
    /\ EnvelopesIdle
    /\ initialData = Snapshot0
    /\ onDataUpdate \in BOOLEAN
    /\ hookState = Mounted(Snapshot0)
    /\ queuedState = Mounted(Snapshot0)
    /\ prevDataRef = Snapshot0
    /\ polls = [k \in Polls |-> "idle"]
    /\ updates = <<>>
    /\ clock = 0

pollFrame == <<mergeVars, fetchVars, result, safeResult, oracleVars, requests,
               offerVars, pageVars, envelopeVars>>

\* usePolling.ts 227-228, 232: fetchData up to its first await
StartPoll(k) ==
    /\ polls[k] = "idle"
    /\ \A j \in Polls : j < k => polls[j] # "idle"
    /\ queuedState' = [queuedState EXCEPT !.isLoading = TRUE, !.error = NoError]
    /\ polls' = [polls EXCEPT ![k] = "fetch"]
    /\ UNCHANGED <<initialData, onDataUpdate, hookState, prevDataRef, updates, pollFrame>>

\* usePolling.ts 266-274: the interval timer fires
IntervalFires ==
    /\ DEFAULT_INTERVAL > 0
    /\ clock' = clock + DEFAULT_INTERVAL
    /\ \E k \in Polls : StartPoll(k)

\* usePolling.ts 261-263
Refresh ==
    /\ UNCHANGED clock
    /\ \E k \in Polls : StartPoll(k)

\* FetchDataCatch without the finally block
FetchDataCatchKeepsLoading(k, message) ==
    /\ queuedState' = [queuedState EXCEPT !.error = message]
    /\ polls' = [polls EXCEPT ![k] = "failed"]
    /\ UNCHANGED <<initialData, onDataUpdate, hookState, prevDataRef, updates,
                   clock, pollFrame>>

\* usePolling.ts 252-256: catch and finally
FetchDataCatch(k, message) ==
    /\ queuedState' = [queuedState EXCEPT !.error = message, !.isLoading = FALSE]
    /\ polls' = [polls EXCEPT ![k] = "failed"]
    /\ UNCHANGED <<initialData, onDataUpdate, hookState, prevDataRef, updates,
                   clock, pollFrame>>

\* FetchDataAccept moving the ref before it calls onDataUpdate
FetchDataAcceptRefFirst(k, newData) ==
    /\ updates' = IF onDataUpdate
                  THEN Append(updates, [poll |-> k, prev |-> newData, new |-> newData])
                  ELSE updates
    /\ prevDataRef' = newData
    /\ queuedState' = [queuedState EXCEPT !.data = newData, !.lastUpdated = clock,
                                          !.isLoading = FALSE]
    /\ polls' = [polls EXCEPT ![k] = "succeeded"]
    /\ UNCHANGED <<initialData, onDataUpdate, hookState, clock, pollFrame>>

\* usePolling.ts 242-251, 254-256: the body is accepted
FetchDataAccept(k, newData) ==
    /\ updates' = IF onDataUpdate
                  THEN Append(updates, [poll |-> k, prev |-> prevDataRef, new |-> newData])
                  ELSE updates
    /\ prevDataRef' = newData
    /\ queuedState' = [queuedState EXCEPT !.data = newData, !.lastUpdated = clock,
                                          !.isLoading = FALSE]
    /\ polls' = [polls EXCEPT ![k] = "succeeded"]
    /\ UNCHANGED <<initialData, onDataUpdate, hookState, clock, pollFrame>>

\* usePolling.ts 232-238: the response arrives with a 2xx status
PollResponds(k) ==
    /\ polls[k] = "fetch"
    /\ polls' = [polls EXCEPT ![k] = "json"]
    /\ UNCHANGED <<initialData, onDataUpdate, hookState, queuedState, prevDataRef,
                   updates, clock, pollFrame>>

\* usePolling.ts 232-236: fetch rejects, or the status is not 2xx
PollRequestFails(k) ==
    /\ polls[k] = "fetch"
    /\ \E message \in {"Failed to fetch", "HTTP 500: Internal Server Error"} :
          FetchDataCatch(k, message)

\* usePolling.ts 238: the body is not JSON
PollBodyUnreadable(k) ==
    /\ polls[k] = "json"
    /\ FetchDataCatch(k, "Unexpected token")

\* usePolling.ts 238-251: the body is parsed
PollBodyArrives(k) ==
    /\ polls[k] = "json"
    /\ \E body \in PollBodies :
          IF ~body.success \/ body.data = NoData
          THEN FetchDataCatch(k, IF body.error # "" THEN body.error ELSE "Failed to fetch data")
          ELSE FetchDataAccept(k, body.data)

\* usePolling.ts 210-221, 283-289: the component renders again
Render ==
    /\ hookState # queuedState
    /\ hookState' = queuedState
    /\ UNCHANGED <<initialData, onDataUpdate, queuedState, prevDataRef, polls,
                   updates, clock, pollFrame>>

\* usePolling.ts 277-281: the page renders with another initialData and the
\* effect runs
InitialDataChanges ==
    /\ \E snapshot \in Snapshots \ {initialData} :
          /\ initialData' = snapshot
          /\ hookState' = queuedState
          /\ queuedState' = [queuedState EXCEPT !.data = snapshot,
                                                !.lastUpdated = snapshot.fetchedAt]
          /\ prevDataRef' = snapshot
    /\ UNCHANGED <<onDataUpdate, polls, updates, clock, pollFrame>>

PollNext ==
    \/ IntervalFires
    \/ Refresh
    \/ \E k \in Polls : PollResponds(k)
    \/ \E k \in Polls : PollRequestFails(k)
    \/ \E k \in Polls : PollBodyUnreadable(k)
    \/ \E k \in Polls : PollBodyArrives(k)
    \/ Render
    \/ InitialDataChanges

PollSpec == PollInit /\ [][PollNext]_vars

(***************************************************************************)
(* usePagination.  As in usePolling, a set-call queues a value and the     *)
(* next render takes it; an updater function (nextPage, prevPage) is       *)
(* applied to the queued value.  The callbacks goToPage and nextPage close *)
(* over totalPages of the last render.  The page calls paginateItems       *)
(* during its render; the effect runs after the render.                    *)
(***************************************************************************)
Max(a, b) == IF a >= b THEN a ELSE b
Min(a, b) == IF a <= b THEN a ELSE b

\* Math.ceil(a / b) for a >= 0, b > 0
Ceil(a, b) == (a + b - 1) \div b

\* part_016 56-58
totalPages(p) == Max(1, Ceil(p.totalItems, p.pageSize))

\* part_016 119-120
canGoPrev == pagination.currentPage > 1
canGoNext == pagination.currentPage < totalPages(pagination)

\* the lengths the list of the page takes
ListLengths == {0, 10, 26, 101}

\* the pages asked for: 0 (previous of 1) up to one past the last page
Pages == 0..12

\* part_016 104-109: paginateItems, called in the render that returned p
paginateItems(p, length) ==
    IF length # p.totalItems THEN [p EXCEPT !.totalItems = length] ELSE p

\* the hook after the first render of the page
PageInit ==
    /\ AggregationIdle
    /\ requests = [u \in Upstreams |-> NoRequest]
    /\ cachedPrice = NullCache
    /\ now = 0
    /\ calls = [c \in Calls |-> IdleCall]
    /\ microtasks = <<>>
    /\ completed = <<>>
    /\ written = <<>>
    /\ lastRead = Null
    /\ OffersIdle
    /\ PollingIdle
    /\ EnvelopesIdle
    /\ pagination = FirstPage
    /\ itemsLength \in ListLengths
    /\ queuedPagination = paginateItems(FirstPage, itemsLength)
    /\ effectPending = TRUE

pageFrame == <<mergeVars, fetchVars, result, safeResult, oracleVars, requests,
               offerVars, pollVars, envelopeVars>>

\* part_016 79-85
GoToPage ==
    /\ \E page \in Pages :
          queuedPagination' =
              [queuedPagination EXCEPT
                  !.currentPage = Max(1, Min(page, totalPages(pagination)))]
    /\ UNCHANGED <<pagination, itemsLength, effectPending, pageFrame>>

\* part_016 88-90
NextPage ==
    /\ queuedPagination' =
           [queuedPagination EXCEPT
               !.currentPage = Min(queuedPagination.currentPage + 1,
                                   totalPages(pagination))]
    /\ UNCHANGED <<pagination, itemsLength, effectPending, pageFrame>>

\* part_016 93-95
PrevPage ==
    /\ queuedPagination' =
           [queuedPagination EXCEPT
               !.currentPage = Max(queuedPagination.currentPage - 1, 1)]
    /\ UNCHANGED <<pagination, itemsLength, effectPending, pageFrame>>

\* part_016 98-101
SetPageSize ==
    /\ \E size \in PAGE_SIZE_OPTIONS :
          queuedPagination' =
              [queuedPagination EXCEPT !.pageSize = size, !.currentPage = 1]
    /\ UNCHANGED <<pagination, itemsLength, effectPending, pageFrame>>

\* the effect leaving the page as it is
EffectPageKeeps(p) == [p EXCEPT !.totalItems = p.totalItems]

\* part_016 72-76: the page the effect asks for after the render that
\* returned p
EffectPage(p) ==
    IF p.currentPage > totalPages(p)
    THEN [p EXCEPT !.currentPage = Max(1, totalPages(p))]
    ELSE p

\* part_016 42-69, 122-131 and part_007 123: the page renders
RenderPage ==
    /\ pagination # queuedPagination
    /\ pagination' = queuedPagination
    /\ queuedPagination' = paginateItems(queuedPagination, itemsLength)
    /\ effectPending' = TRUE
    /\ UNCHANGED <<itemsLength, pageFrame>>

\* part_007 123: the page renders with a list of another length
ItemsChange ==
    /\ \E length \in ListLengths \ {itemsLength} :
          /\ itemsLength' = length
          /\ queuedPagination' = paginateItems(queuedPagination, length)
    /\ pagination' = queuedPagination
    /\ effectPending' = TRUE
    /\ UNCHANGED pageFrame

\* part_016 72-76: the effect runs; currentPage in the set-call is the one
\* of the render
RunEffect ==
    /\ effectPending
    /\ effectPending' = FALSE
    /\ queuedPagination' =
           [queuedPagination EXCEPT
               !.currentPage = IF EffectPage(pagination) = pagination
                               THEN queuedPagination.currentPage
                               ELSE EffectPage(pagination).currentPage]
    /\ UNCHANGED <<pagination, itemsLength, pageFrame>>

PageNext ==
    \/ GoToPage \/ NextPage \/ PrevPage \/ SetPageSize
    \/ RenderPage \/ ItemsChange \/ RunEffect

PageSpec == PageInit /\ [][PageNext]_vars

(***************************************************************************)
(* fetchTokens, fetchMarkets, fetchTibetSwapPairs: what each makes of the  *)
(* body of its response.  A body is { success, tokens } / { success,       *)
(* markets: { xch } } / the bare value for the pairs; its list is an       *)
(* array, is missing, or is something that is not an array.                *)
(***************************************************************************)
\* the entries of one list
MaxEntries == 2

ListedToken(id, code, name) == [id |-> id, code |-> code, name |-> name]
ListedTokens ==
    {ListedToken("A", "AAA", "Alpha"), ListedToken("", "BBB", "Beta"),
     ListedToken("C", "", "Gamma"), ListedToken("B", "BBB", "")}

MarketNoId == [MarketA EXCEPT !.id = ""]
ListedMarkets == {MarketA, MarketAZero, MarketBNoPrice, MarketNoId}

ListedPairs == {PairA, PairB}

Envelope(success, kind, items) ==
    [status |-> "body", success |-> success, kind |-> kind, items |-> items]

Envelopes(entries) ==
    {Envelope(success, "array", items) :
         success \in BOOLEAN, items \in BSeq(entries, MaxEntries)}
    \cup {Envelope(success, kind, <<>>) :
         success \in BOOLEAN, kind \in {"missing", "object"}}

\* the request failed for good: a thrown error reaches the catch block
Unanswered == [status |-> "thrown"]

\* dexie-api.ts 80
ValidToken(token) == token.id # "" /\ token.code # "" /\ token.name # ""

\* dexie-api.ts 114
ValidMarket(market) == market.id # "" /\ market.price # Undefined

\* dexie-api.ts 69-89
fetchTokens(response) ==
    IF response = Unanswered THEN Failure("tokens")
    ELSE IF ~response.success \/ response.kind # "array"
    THEN Failure("Invalid response structure from tokens API")
    ELSE Success(SelectSeq(response.items, ValidToken))

\* dexie-api.ts 103-123
fetchMarkets(response) ==
    IF response = Unanswered THEN Failure("markets")
    ELSE IF ~response.success \/ response.kind # "array"
    THEN Failure("Invalid response structure from markets API")
    ELSE Success(SelectSeq(response.items, ValidMarket))

\* fetchTibetSwapPairs taking anything that is not an array as no pairs
fetchTibetSwapPairsLenient(response) ==
    IF response = Unanswered THEN Failure("pairs")
    ELSE IF response.kind # "array" THEN Success(<<>>)
    ELSE Success(response.items)

\* tibetswap-api.ts 43-56
fetchTibetSwapPairs(response) ==
    IF response = Unanswered THEN Failure("pairs")
    ELSE IF response.kind # "array" THEN Failure("Invalid TibetSwap response")
    ELSE Success(response.items)

EnvelopeInit ==
    /\ tokens = <<>>
    /\ markets = <<>>
    /\ tibetSwapPairs = <<>>
    /\ lastTradePrices = NoTrades
    /\ xchUsdPrice = Zero
    /\ dashboardTokens = <<>>
    /\ processedIds = {}
    /\ pc = "clients"
    /\ tokensResult = Pending
    /\ marketsResult = Pending
    /\ tibetSwapResult = Pending
    /\ lastTradePricesResult = NotCalled
    /\ xchPriceResult = NotCalled
    /\ result = NotCalled
    /\ safeResult = NotCalled
    /\ requests = [u \in Upstreams |-> NoRequest]
    /\ cachedPrice = NullCache
    /\ now = 0
    /\ calls = [c \in Calls |-> IdleCall]
    /\ microtasks = <<>>
    /\ completed = <<>>
    /\ written = <<>>
    /\ lastRead = Null
    /\ OffersIdle
    /\ PollingIdle
    /\ PaginationIdle
    /\ EnvelopesIdle

envelopeFrame == <<mergeVars, lastTradePricesResult, xchPriceResult, result, safeResult,
                   oracleVars, requests, offerVars, pollVars, pageVars>>

\* dexie-api.ts 63-90
TokensAnswered ==
    /\ tokensResult = Pending
    /\ \E response \in Envelopes(ListedTokens) \cup {Unanswered} :
          /\ responses' = [responses EXCEPT !["tokens"] = response]
          /\ tokensResult' = fetchTokens(response)
    /\ UNCHANGED <<marketsResult, tibetSwapResult, envelopeFrame>>

\* dexie-api.ts 97-124
MarketsAnswered ==
    /\ marketsResult = Pending
    /\ \E response \in Envelopes(ListedMarkets) \cup {Unanswered} :
          /\ responses' = [responses EXCEPT !["markets"] = response]
          /\ marketsResult' = fetchMarkets(response)
    /\ UNCHANGED <<tokensResult, tibetSwapResult, envelopeFrame>>

\* tibetswap-api.ts 33-57; the body has no success flag
PairsAnswered ==
    /\ tibetSwapResult = Pending
    /\ \E response \in {e \in Envelopes(ListedPairs) : e.success} \cup {Unanswered} :
          /\ responses' = [responses EXCEPT !["pairs"] = response]
          /\ tibetSwapResult' = fetchTibetSwapPairs(response)
    /\ UNCHANGED <<tokensResult, marketsResult, envelopeFrame>>

EnvelopeNext == TokensAnswered \/ MarketsAnswered \/ PairsAnswered

EnvelopeSpec == EnvelopeInit /\ [][EnvelopeNext]_vars

(***************************************************************************)
(* Properties of mergeTokensAndMarkets (checked under MergeSpec).          *)
(***************************************************************************)
Returned == pc = "returned"

Records == {dashboardTokens[i] : i \in DOMAIN dashboardTokens}
RecordsOf(id) == {r \in Records : r.id = id}

\* the market entries of an id, and those with a usable last price
MarketsOf(id) == {i \in DOMAIN markets : markets[i].id = id}
PricedMarketsOf(id) == {i \in MarketsOf(id) : safeNumber(markets[i].price) # Zero}
PairsOf(id) == {i \in DOMAIN tibetSwapPairs : tibetSwapPairs[i].asset_id = id}
TokensOf(id) == {i \in DOMAIN tokens : tokens[i].id = id}

\* the records appended by the step being taken
Appended == {dashboardTokens'[i] : i \in (Len(dashboardTokens) + 1)..Len(dashboardTokens')}

\* C1: no two records of the returned collection share an id, whatever the
\* inputs, duplicate ids in markets, pools or tokens included.
C1_UniqueIds ==
    Returned =>
        \A i, j \in DOMAIN dashboardTokens :
            i # j => dashboardTokens[i].id # dashboardTokens[j].id

\* C2 as stated: an id with a priced market entry and an AMM pair has a record
\* tagged `orderbook` carrying the market's last price, and no AMM record.
C2_Original ==
    Returned =>
        \A id \in Ids :
            (PricedMarketsOf(id) # {} /\ PairsOf(id) # {}) =>
                /\ RecordsOf(id) # {}
                /\ \A r \in RecordsOf(id) :
                       /\ r.priceSource = "orderbook"
                       /\ \E i \in PricedMarketsOf(id) :
                              r.priceXch = safeNumber(markets[i].price)

\* C2 (amended): an id with a priced market entry and an AMM pair has a record,
\* every record of that id is tagged `dexie` and carries the last price of a
\* market entry of that id, and none is an AMM-path (`tibetswap`) record.
C2_Precedence ==
    Returned =>
        \A id \in Ids :
            (PricedMarketsOf(id) # {} /\ PairsOf(id) # {}) =>
                /\ RecordsOf(id) # {}
                /\ \A r \in RecordsOf(id) :
                       /\ r.priceSource = "dexie"
                       /\ r.priceSource # "tibetswap"
                       /\ \E i \in PricedMarketsOf(id) :
                              r.priceXch = safeNumber(markets[i].price)

\* the pool of A prices A at 2 (denom 1000), the market at 0.5
C2_Witness ==
    /\ Returned
    /\ markets = <<MarketA>>
    /\ tibetSwapPairs = <<PairA>>
    /\ tokens = <<TokenA>>
    /\ transformTibetSwapToken(PairA, <<TokenA>>, xchUsdPrice).priceXch = Num(2)
    /\ \E r \in Records : r.id = "A" /\ r.priceXch = Dec(5, -1)

\* C3 as stated: the tags are orderbook, amm, lastTrade, none, by pass.
C3_Original ==
    /\ \A r \in Records : r.priceSource \in {"orderbook", "amm", "lastTrade", "none"}
    /\ pc = "pairs" => \A r \in Records : r.priceSource = "orderbook"

\* C3 (amended): every record carries one tag of {dexie, tibetswap, lastTrade,
\* none}; the first loop appends only `dexie` records, the second only
\* `tibetswap` records, the third `lastTrade` for a token with a positive last
\* trade price and `none` otherwise, and the sort changes no record.
C3_SourceMatchesPass ==
    [][ /\ \A r \in Records : r.priceSource \in {"dexie", "tibetswap", "lastTrade", "none"}
        /\ pc = "markets" => \A r \in Appended : r.priceSource = "dexie"
        /\ pc = "pairs" => \A r \in Appended : r.priceSource = "tibetswap"
        /\ pc = "tokens" =>
              \A r \in Appended :
                  r.priceSource =
                      IF /\ r.id \in DOMAIN lastTradePrices
                         /\ Gt(lastTradePrices[r.id].priceXch, Zero)
                      THEN "lastTrade" ELSE "none"
        /\ pc = "sort" =>
              /\ Len(dashboardTokens') = Len(dashboardTokens)
              /\ {dashboardTokens'[i] : i \in DOMAIN dashboardTokens'} = Records
        /\ \A i \in DOMAIN dashboardTokens : pc # "sort" => dashboardTokens'[i] = dashboardTokens[i]
      ]_vars

\* one record of each of three passes in one result
C3_Witness ==
    /\ Returned
    /\ \E r \in Records : r.priceSource = "dexie"
    /\ \E r \in Records : r.priceSource = "tibetswap"
    /\ \E r \in Records : r.priceSource = "none"

\* C4: a market entry with no usable last price (0, missing, non-finite) adds
\* no record and does not mark its id processed; an id with only such entries
\* has no order-book record and is resolved by the pools (a pool of the id
\* with a positive price) or else by the token list.
C4_ZeroPriceFallsThrough ==
    /\ pc = "pairs" =>
          /\ Len(dashboardTokens) =
                 Cardinality({i \in DOMAIN markets : safeNumber(markets[i].price) # Zero})
          /\ \A id \in Ids :
                 (MarketsOf(id) # {} /\ PricedMarketsOf(id) = {}) =>
                     id \notin processedIds /\ RecordsOf(id) = {}
    /\ Returned =>
          \A id \in Ids :
              (MarketsOf(id) # {} /\ PricedMarketsOf(id) = {}) =>
                  /\ \A r \in RecordsOf(id) : r.priceSource # "dexie"
                  /\ IF \E i \in PairsOf(id) :
                            Gt(transformTibetSwapToken(tibetSwapPairs[i],
                                   createTokenMap(tokens, id), xchUsdPrice).priceXch, Zero)
                     THEN /\ id \in processedIds
                          /\ \E r \in RecordsOf(id) : r.priceSource = "tibetswap"
                          /\ \A r \in RecordsOf(id) : r.priceSource = "tibetswap"
                     ELSE /\ id \notin processedIds
                          /\ TokensOf(id) # {} <=> RecordsOf(id) # {}
                          /\ \A r \in RecordsOf(id) : r.priceSource \in {"lastTrade", "none"}

\* a zero-priced market for A whose id is then resolved by the pool of A
C4_Witness ==
    /\ Returned
    /\ markets = <<MarketAZero>>
    /\ tibetSwapPairs = <<PairA>>
    /\ \E r \in Records : r.id = "A" /\ r.priceSource = "tibetswap"

\* C5: a record with hasMarket === false has price, change, volume and
\* liquidity (XCH and USD) all exactly 0.
C5_NoMarketAllZero ==
    \A r \in Records :
        r.hasMarket = "false" =>
            /\ r.priceXch = Zero /\ r.priceUsd = Zero
            /\ r.change24h = Zero /\ r.change7d = Zero
            /\ r.volume24hXch = Zero /\ r.volume24hUsd = Zero
            /\ r.volume7dXch = Zero /\ r.volume7dUsd = Zero
            /\ r.liquidityXch = Zero /\ r.liquidityUsd = Zero

\* a no-market record next to a last-trade record
C5_Witness ==
    /\ Returned
    /\ \E r \in Records : r.hasMarket = "false"
    /\ \E r \in Records : r.priceSource = "lastTrade"

\* C6: in the returned collection every record with hasMarket !== false comes
\* before every record with hasMarket === false; volume7dXch does not increase
\* along the first group; symbol does not decrease (in localeCompare's order)
\* along the second.
C6_Sorted ==
    Returned =>
        \A i, j \in DOMAIN dashboardTokens :
            i < j =>
                LET a == dashboardTokens[i]
                    b == dashboardTokens[j]
                IN  /\ ~(a.hasMarket = "false" /\ b.hasMarket # "false")
                    /\ (a.hasMarket # "false" /\ b.hasMarket # "false") =>
                           ~Lt(a.volume7dXch, b.volume7dXch)
                    /\ (a.hasMarket = "false" /\ b.hasMarket = "false") =>
                           LocaleRank(a.symbol) <= LocaleRank(b.symbol)

\* the sort moved the market of B (volume 700) before the market of A (500) and
\* the no-market record of C behind both
C6_Witness ==
    /\ Returned
    /\ tokens = <<TokenC>>
    /\ markets = <<MarketA, MarketB>>
    /\ lastTradePrices = NoTrades
    /\ Len(dashboardTokens) = 3
    /\ dashboardTokens[1].id = "B"
    /\ dashboardTokens[2].id = "A"
    /\ dashboardTokens[3].hasMarket = "false"

\* C7: every record with a nonzero priceXch has priceUsd = priceXch * the fiat
\* rate passed to the merge.
C7_FiatDerivation ==
    \A r \in Records :
        r.priceXch # Zero => r.priceUsd = Mul(r.priceXch, xchUsdPrice)

\* priced records of two passes at a rate that is not the fallback
C7_Witness ==
    /\ Returned
    /\ xchUsdPrice = Num(30)
    /\ \E r \in Records : r.priceSource = "lastTrade" /\ r.priceUsd = Dec(75, -1)
    /\ \E r \in Records : r.priceSource = "tibetswap" /\ r.priceUsd = Num(120)

(***************************************************************************)
(* Properties of fetchDashboardData and fetchDashboardDataSafe (checked    *)
(* under FetchSpec).                                                       *)
(***************************************************************************)
Failed(r) == r.status = "failure"
Succeeded(r) == r.status = "success"

\* C8: once the tokens fetch or the markets fetch has failed, the merge is never
\* run, fetchDashboardData returns no dashboard, and when all fetches have
\* settled it returns a failure carrying the error of that fetch (the tokens
\* fetch's when both failed), whatever the other three fetches did.
C8_FatalPropagation ==
    (Failed(tokensResult) \/ Failed(marketsResult)) =>
        /\ pc \in {"await", "failed"}
        /\ dashboardTokens = <<>> /\ processedIds = {}
        /\ ~Succeeded(result)
        /\ result # Pending =>
               result = Failure(IF Failed(tokensResult) THEN tokensResult.error
                                ELSE marketsResult.error)
        /\ (AllSettled /\ pc = "await") => ENABLED CriticalFailure /\ ~ENABLED CallMerge

\* the markets fetch alone failed
C8_Witness ==
    /\ Failed(result)
    /\ result.error = "markets"
    /\ Succeeded(tokensResult) /\ Succeeded(tibetSwapResult)
    /\ Succeeded(lastTradePricesResult) /\ Succeeded(xchPriceResult)

EmptySnapshot ==
    [tokens |-> <<>>, xchPriceUsd |-> Num(25), fetchedAt |-> "now", isStale |-> TRUE]

\* C9: whatever fetchDashboardData returned, fetchDashboardDataSafe can return,
\* and what it returns is a snapshot; when fetchDashboardData failed the
\* snapshot is exactly tokens = [], rate 25, isStale = true; isStale = false
\* only when the aggregation succeeded.
C9_SafeNeverFails ==
    /\ safeResult # Pending =>
           /\ DOMAIN safeResult = {"tokens", "xchPriceUsd", "fetchedAt", "isStale"}
           /\ Failed(result) => safeResult = EmptySnapshot
           /\ ~safeResult.isStale => Succeeded(result) /\ safeResult = result.data
    /\ (result # Pending /\ safeResult = Pending) => ENABLED FetchDashboardDataSafe

\* the safe variant returned the empty snapshot although only one source failed
C9_Witness ==
    /\ safeResult = EmptySnapshot
    /\ Failed(tokensResult)
    /\ Succeeded(marketsResult) /\ Succeeded(tibetSwapResult)
    /\ Succeeded(lastTradePricesResult)

\* C10: when both order-book fetches succeeded, fetchDashboardData does not
\* fail whatever the AMM and last-trade fetches did, and the tokens it returns
\* are the merge of the fetched tokens and markets with an empty pair list for
\* a failed AMM fetch and an empty map for a failed last-trade fetch.
C10_DegradedSources ==
    (Succeeded(tokensResult) /\ Succeeded(marketsResult)) =>
        /\ ~Failed(result)
        /\ pc # "failed"
        /\ (AllSettled /\ pc = "await") => ENABLED CallMerge /\ ~ENABLED CriticalFailure
        /\ (pc = "returned" /\ result = Pending) => ENABLED ReturnDashboard
        /\ Succeeded(result) =>
               /\ result.data.tokens =
                      mergeTokensAndMarkets(
                          tokensResult.data, marketsResult.data, xchPriceResult.data,
                          IF Succeeded(tibetSwapResult) THEN tibetSwapResult.data ELSE <<>>,
                          IF Succeeded(lastTradePricesResult)
                          THEN lastTradePricesResult.data ELSE NoTrades)
               /\ ~result.data.isStale
               /\ Failed(tibetSwapResult) =>
                      \A i \in DOMAIN result.data.tokens :
                          result.data.tokens[i].priceSource # "tibetswap"
               /\ Failed(lastTradePricesResult) =>
                      \A i \in DOMAIN result.data.tokens :
                          result.data.tokens[i].priceSource # "lastTrade"

\* a dashboard returned although the AMM and the last-trade fetch both failed
C10_Witness ==
    /\ Succeeded(result)
    /\ Failed(tibetSwapResult)
    /\ Failed(lastTradePricesResult)
    /\ Len(result.data.tokens) = 2

(***************************************************************************)
(* Properties of fetchXchUsdPrice (checked under OracleSpec).              *)
(***************************************************************************)
HasReturned(c) == calls[c].pc = "returned"

\* C11: every fetchXchUsdPrice call that has returned reports success with a
\* positive number, whatever the cache held (nothing, a fresh pair, a stale
\* pair) and whatever the two oracles answered; no call ends in a failure.
C11_AlwaysPositiveSuccess ==
    \A c \in Calls :
        /\ calls[c].ret.status \in {"none", "success"}
        /\ HasReturned(c) =>
             /\ calls[c].ret.status = "success"
             /\ IsPositiveNumber(calls[c].ret.data)

\* one call refreshed the cache from the secondary oracle, a later one found
\* the pair stale, had both oracles fail and returned the stale value
C11_Witness ==
    \E c, d \in Calls :
        /\ HasReturned(c) /\ calls[c].branch = "dexie"
        /\ HasReturned(d) /\ calls[d].branch = "expired"
        /\ calls[d].ret = Success(Number(Num(28)))

\* C12: a call that has had both oracle fetches fail while nothing is cached
\* returns success with the constant 25.
C12_FallbackConstant ==
    [][\A c \in Calls :
         (/\ calls[c].pc = "afterDexie"
          /\ calls[c].issued = {"coingecko", "dexie"}
          /\ ~Truthy(calls[c].price)
          /\ cachedPrice = NullCache
          /\ calls'[c] # calls[c])
         => /\ HasReturned(c)'
            /\ calls'[c].ret = Success(Number(Num(25)))
            /\ cachedPrice' = NullCache]_vars

C12_Witness ==
    \E c \in Calls :
        /\ HasReturned(c) /\ calls[c].branch = "fallback"
        /\ calls[c].issued = {"coingecko", "dexie"}
        /\ calls[c].ret = Success(Number(Num(25)))
        /\ cachedPrice = NullCache

AllReturned == \A c \in Calls : HasReturned(c)

\* C17: overlapping calls do not disturb one another's cache writes.  Every
\* assignment to cachedPrice stores the value of one fetch that delivered a
\* price together with the clock reading of that moment; the assignments
\* happen in the order in which those fetches completed and none is missing
\* once every resolved call has resumed; so when all calls have returned the
\* cache holds the value of the fetch that completed last.
C17_NoWriterHazard ==
    /\ [](/\ Len(written) <= Len(completed)
          /\ \A i \in DOMAIN written : written[i] = completed[i]
          /\ microtasks = <<>> => written = completed
          /\ written = <<>> => cachedPrice = NullCache
          /\ written # <<>> => cachedPrice.value = written[Len(written)].value
          /\ (AllReturned /\ completed # <<>>) =>
                cachedPrice.value = completed[Len(completed)].value)
    /\ [][cachedPrice' # cachedPrice =>
            \E c \in Calls :
                /\ calls[c].pc \in {"afterCoinGecko", "afterDexie"}
                /\ IsPositiveNumber(calls[c].price)
                /\ cachedPrice' = [value |-> calls[c].price, timestamp |-> now]
                /\ written' = Append(written, completed[Len(written) + 1])
                /\ completed[Len(written) + 1].call = c
                /\ completed[Len(written) + 1].value = calls[c].price]_vars

\* two calls were in flight together (neither saw the other's write, the clock
\* never moved), both fetched a price, and the later completion is cached
C17_Witness ==
    /\ AllReturned
    /\ now = 0
    /\ Len(written) = 2
    /\ written[1].source = "dexie"
    /\ written[2].source = "coingecko"
    /\ written[1].call # written[2].call
    /\ cachedPrice = [value |-> written[2].value, timestamp |-> 0]

\* C18: a call made while a pair is cached and younger than 60 s returns the
\* cached value at once: it issues neither oracle fetch and leaves the cached
\* value and timestamp as they were.
C18_FreshCacheHit ==
    [][\A c \in Calls :
         (/\ calls[c].pc = "idle"
          /\ cachedPrice # NullCache
          /\ now - cachedPrice.timestamp < 60000
          /\ calls'[c] # calls[c])
         => /\ HasReturned(c)'
            /\ calls'[c].ret = Success(cachedPrice.value)
            /\ calls'[c].issued = {}
            /\ cachedPrice' = cachedPrice
            /\ completed' = completed]_vars

\* a call answered from a pair that was half a TTL old
C18_Witness ==
    \E c \in Calls :
        /\ HasReturned(c) /\ calls[c].branch = "cache"
        /\ calls[c].issued = {}
        /\ cachedPrice # NullCache
        /\ now - cachedPrice.timestamp = TickMs
        /\ calls[c].ret = Success(cachedPrice.value)

NotFresh == cachedPrice = NullCache \/ now - cachedPrice.timestamp >= 60000

\* C19: a call made while the cache is not fresh goes to the primary oracle;
\* the secondary oracle is asked only once the primary has delivered no
\* price; a price delivered by either is stored with the current time and
\* returned; the cached value is returned only once both have delivered no
\* price, and then the cache is left as it was.
C19_ResolutionOrder ==
    [][\A c \in Calls :
         /\ (calls[c].pc = "idle" /\ NotFresh /\ calls'[c] # calls[c])
            => /\ calls'[c].pc = "coingecko"
               /\ calls'[c].issued = {"coingecko"}
               /\ cachedPrice' = cachedPrice
         /\ ("dexie" \notin calls[c].issued /\ "dexie" \in calls'[c].issued)
            => /\ calls[c].pc = "afterCoinGecko"
               /\ "coingecko" \in calls[c].issued
               /\ calls[c].price = Null
               /\ cachedPrice' = cachedPrice
         /\ (/\ calls[c].pc \in {"afterCoinGecko", "afterDexie"}
             /\ calls[c].price # Null
             /\ calls'[c] # calls[c])
            => /\ cachedPrice' = [value |-> calls[c].price, timestamp |-> now]
               /\ HasReturned(c)'
               /\ calls'[c].ret = Success(calls[c].price)
         /\ (/\ calls[c].pc \notin {"idle", "returned"}
             /\ calls[c].price = Null
             /\ HasReturned(c)')
            => /\ calls[c].pc = "afterDexie"
               /\ calls[c].issued = {"coingecko", "dexie"}
               /\ cachedPrice' = cachedPrice
               /\ cachedPrice # NullCache
                    => calls'[c].ret = Success(cachedPrice.value)]_vars

\* one call stored a primary price; a later call found it at least a TTL
\* old, had both oracles fail and returned it
C19_Witness ==
    \E c, d \in Calls :
        /\ HasReturned(c) /\ calls[c].branch = "coingecko"
        /\ HasReturned(d) /\ calls[d].branch = "expired"
        /\ calls[d].issued = {"coingecko", "dexie"}
        /\ now - cachedPrice.timestamp >= CACHE_TTL
        /\ calls[d].ret = Success(cachedPrice.value)

(***************************************************************************)
(* Properties of the upstream requests (checked under HttpSpec).           *)
(***************************************************************************)
Settled(u) == requests[u].state \in {"resolved", "rejected"}

\* C13: one fetchWithRetry request makes at most 3 attempts; it waits 1 s
\* before the second and 2 s before the third; an attempt that fails (non-2xx
\* status, network error or timeout abort) is followed by a wait and another
\* attempt unless it was the third; the request resolves with the first
\* attempt that succeeds and makes no attempt afterwards; it rejects, which
\* is what fetchTokens / fetchMarkets get to see, only after the third
\* failed attempt.
C13_RetrySchedule ==
    /\ [](\A u \in Retried :
            LET r == requests[u] IN
            /\ r.attempts \in 1..3
            /\ r.waits = SubSeq(<<1000, 2000>>, 1,
                                IF r.state = "backoff" THEN r.attempts
                                ELSE r.attempts - 1)
            /\ r.state = "rejected" => r.attempts = 3)
    /\ [][\A u \in Retried :
            LET r == requests[u] IN
            /\ Settled(u) => requests'[u] = r
            /\ (r.state = "inflight" /\ requests'[u] # r) =>
                  \/ requests'[u].state = "resolved"
                  \/ requests'[u].state = "backoff" /\ r.attempts < 3
                  \/ requests'[u].state = "rejected" /\ r.attempts = 3
            /\ (r.state = "backoff" /\ requests'[u] # r) =>
                  /\ requests'[u].state = "inflight"
                  /\ requests'[u].attempts = r.attempts + 1]_vars

\* an upstream that never answers: three attempts, each aborted by its timer,
\* with waits of 1 s and 2 s between them, then the rejection
C13_Witness ==
    /\ requests["tokens"].silent
    /\ requests["tokens"].state = "rejected"
    /\ requests["tokens"].attempts = 3
    /\ requests["tokens"].waits = <<1000, 2000>>
    /\ requests["markets"].state = "resolved"
    /\ requests["markets"].attempts = 2
    /\ requests["markets"].waits = <<1000>>

\* C15: every upstream request that is in flight has an abort timer of the
\* fixed length (10 s) running, so that no request can stay open for ever on
\* an upstream that never answers.
C15_EveryCallBounded ==
    \A u \in Upstreams :
        requests[u].state = "inflight" => requests[u].timer = Timer

(***************************************************************************)
(* Further properties of mergeTokensAndMarkets (checked under MergeSpec).  *)
(***************************************************************************)
\* one token A with denom 1000, one market for A (last price 0.5, change
\* 0.02 / -0.01, volume 100 / 500, liquidity ask [10] bid [5]), no pools, no
\* last trades, fiat rate 25
ExampleInput ==
    /\ tokens = <<TokenA>>
    /\ markets = <<MarketA>>
    /\ tibetSwapPairs = <<>>
    /\ lastTradePrices = NoTrades
    /\ xchUsdPrice = Num(25)

ExampleFigures(r) ==
    /\ r.id = "A"
    /\ r.priceXch = Dec(5, -1)
    /\ r.priceUsd = Dec(125, -1)
    /\ r.change24h = Num(2)
    /\ r.change7d = Num(-1)
    /\ r.volume24hXch = Num(100)
    /\ r.volume24hUsd = Num(2500)
    /\ r.liquidityXch = Num(15)

\* the figures a record takes from the priced market entry i
FromMarket(r, i) ==
    /\ r.id = markets[i].id
    /\ r.priceXch = safeNumber(markets[i].price)
    /\ r.change24h = Mul(safeNumber(markets[i].changeDaily), Num(100))
    /\ r.change7d = Mul(safeNumber(markets[i].changeWeekly), Num(100))
    /\ r.volume24hUsd = Mul(safeNumber(markets[i].volDaily), xchUsdPrice)
    /\ r.volume7dUsd = Mul(safeNumber(markets[i].volWeekly), xchUsdPrice)

\* C14 as stated: the example yields one record tagged `orderbook` with
\* hasMarket = true, and every record of the first loop has hasMarket = true.
C14_Original ==
    /\ (Returned /\ ExampleInput) =>
          /\ Len(dashboardTokens) = 1
          /\ ExampleFigures(dashboardTokens[1])
          /\ dashboardTokens[1].priceSource = "orderbook"
          /\ dashboardTokens[1].hasMarket = "true"
    /\ pc = "pairs" =>
          \A r \in Records :
              /\ \E i \in PricedMarketsOf(r.id) : FromMarket(r, i)
              /\ r.hasMarket = "true"

\* C14: the example input yields exactly one record, with id A, priceXch 0.5,
\* priceUsd 12.5, change24h 2, change7d -1, volume24hXch 100, volume24hUsd
\* 2500, liquidityXch 15, priceSource `dexie` and hasMarket left unset; and
\* every record of the first loop takes its change as the market's change
\* fraction x 100 and its fiat volume as volume x fiat rate, is tagged
\* `dexie` and has hasMarket unset.
C14_ExampleRecord ==
    /\ (Returned /\ ExampleInput) =>
          /\ Len(dashboardTokens) = 1
          /\ ExampleFigures(dashboardTokens[1])
          /\ dashboardTokens[1].priceSource = "dexie"
          /\ dashboardTokens[1].hasMarket = "undefined"
    /\ pc = "pairs" =>
          \A r \in Records :
              /\ \E i \in PricedMarketsOf(r.id) : FromMarket(r, i)
              /\ r.priceSource = "dexie"
              /\ r.hasMarket = "undefined"
    /\ Returned =>
          \A r \in Records :
              r.priceSource = "dexie" =>
                  /\ \E i \in PricedMarketsOf(r.id) : FromMarket(r, i)
                  /\ r.hasMarket = "undefined"

C14_Witness ==
    /\ Returned
    /\ ExampleInput
    /\ Len(dashboardTokens) = 1
    /\ dashboardTokens[1].symbol = "AAA"
    /\ dashboardTokens[1].volume24hUsd = Num(2500)

(***************************************************************************)
(* Further properties of fetchDashboardData (checked under FetchSpec).     *)
(***************************************************************************)
InFlight(r) == r = Pending

NoneInFlight ==
    /\ ~InFlight(tokensResult) /\ ~InFlight(marketsResult)
    /\ ~InFlight(tibetSwapResult) /\ ~InFlight(lastTradePricesResult)
    /\ ~InFlight(xchPriceResult)

\* C16: the five fetches are all issued before any of them is awaited (none
\* is ever in the not-called state); fetchDashboardData neither returns nor
\* goes on to its checks while a fetch is still in flight; and after a
\* failure of the tokens fetch (likewise of any other) the fetches still in
\* flight can settle as before and no return is possible until they have.
C16_WaitsForAll ==
    /\ tokensResult # NotCalled /\ marketsResult # NotCalled
    /\ tibetSwapResult # NotCalled /\ lastTradePricesResult # NotCalled
    /\ xchPriceResult # NotCalled
    /\ (result # Pending \/ safeResult # Pending \/ pc # "await") => NoneInFlight
    /\ InFlight(tokensResult) => ENABLED FetchTokens
    /\ InFlight(marketsResult) => ENABLED FetchMarkets
    /\ InFlight(tibetSwapResult) => ENABLED FetchTibetSwapPairs
    /\ InFlight(lastTradePricesResult) => ENABLED FetchLastTradePrices
    /\ InFlight(xchPriceResult) => ENABLED FetchXchUsdPrice
    /\ ~NoneInFlight => ~ENABLED CriticalFailure /\ ~ENABLED CallMerge

\* the tokens fetch has failed, the AMM fetch has gone on to succeed, three
\* fetches are still in flight and nothing has been returned
C16_Witness ==
    /\ Failed(tokensResult)
    /\ Succeeded(tibetSwapResult)
    /\ InFlight(marketsResult)
    /\ InFlight(lastTradePricesResult)
    /\ InFlight(xchPriceResult)
    /\ result = Pending
    /\ pc = "await"

\* the price the reserves of pool i give, at the denomination of its token
PoolPrice(i) ==
    LET token == createTokenMap(tokens, tibetSwapPairs[i].asset_id) IN
    calculatePriceFromReserves(
        tibetSwapPairs[i].xch_reserve, tibetSwapPairs[i].token_reserve,
        IF token = <<>> \/ token[1].denom = 0 THEN 1000 ELSE token[1].denom)

PricedPairsOf(id) == {i \in PairsOf(id) : Gt(PoolPrice(i), Zero)}

FirstOf(S) == CHOOSE i \in S : \A j \in S : i <= j

IndexesOf(id) == {k \in DOMAIN dashboardTokens : dashboardTokens[k].id = id}

AfterPairs == pc \in {"tokens", "sort", "returned"}

\* what C20 says of an id that has pools and no record from the first loop,
\* the AMM records carrying the given tag
AmmPass(tag) ==
    \A id \in Ids :
        (PairsOf(id) # {} /\ PricedMarketsOf(id) = {}) =>
            IF PricedPairsOf(id) = {}
            THEN /\ AfterPairs =>
                      /\ id \notin processedIds
                      /\ \A r \in RecordsOf(id) : r.priceSource \in {"lastTrade", "none"}
                 /\ pc = "tokens" => RecordsOf(id) = {}
                 /\ Returned => (TokensOf(id) # {} <=> RecordsOf(id) # {})
            ELSE AfterPairs =>
                   /\ id \in processedIds
                   /\ Cardinality(IndexesOf(id)) = 1
                   /\ \A r \in RecordsOf(id) :
                        LET i == FirstOf(PricedPairsOf(id)) IN
                        /\ r.priceSource = tag
                        /\ r.priceXch = PoolPrice(i)
                        /\ r.priceUsd = Mul(PoolPrice(i), xchUsdPrice)
                        /\ r.liquidityXch =
                               calculateLiquidityXch(tibetSwapPairs[i].xch_reserve)
                        /\ r.change24h = Zero /\ r.change7d = Zero
                        /\ r.volume24hXch = Zero /\ r.volume24hUsd = Zero
                        /\ r.volume7dXch = Zero /\ r.volume7dUsd = Zero

\* C20 as stated: the AMM records are tagged `amm`.
C20_Original == AmmPass("amm")

\* C20: for an id that has AMM pairs and got no record in the first loop: if
\* no pair of the id gives a positive price, the second loop adds no record
\* and leaves the id unprocessed, so that the third loop handles the tokens
\* of that id; otherwise the id is marked processed and has exactly one
\* record, tagged `tibetswap`, whose price and liquidity are derived from
\* the reserves of the first such pair and whose change and volume fields
\* are all 0 - a last-trade price for that id is not used.
C20_AmmPass == AmmPass("tibetswap")

\* A has only an empty pool and is left to the third loop; B has a priced
\* pool and a last-trade price, and gets its one record from the pool
C20_Witness ==
    /\ Returned
    /\ tibetSwapPairs = <<PairAEmpty, PairB>>
    /\ lastTradePrices = TradesABC
    /\ TokensOf("A") # {} /\ TokensOf("B") # {}
    /\ \E r \in Records : r.id = "A" /\ r.priceSource = "none"
    /\ \E r \in Records : r.id = "B" /\ r.priceSource = "tibetswap" /\ r.priceXch = Num(4)

\* the token entries the third loop has to deal with, in input order
Remaining == SelectSeq(tokens, LAMBDA t : t.id \notin processedIds)

ZeroValued(r) ==
    /\ r.priceXch = Zero /\ r.priceUsd = Zero
    /\ r.change24h = Zero /\ r.change7d = Zero
    /\ r.volume24hXch = Zero /\ r.volume24hUsd = Zero
    /\ r.volume7dXch = Zero /\ r.volume7dUsd = Zero
    /\ r.liquidityXch = Zero /\ r.liquidityUsd = Zero

\* C21: when the third loop is done, the records it has appended are, in
\* order, one per token entry whose id passes 1 and 2 left unprocessed: with
\* the last-trade price, the trade's date as lastUpdated, hasMarket = true
\* and priceSource `lastTrade` when the map holds a price > 0 for the id, and
\* otherwise all zero with hasMarket = false and priceSource `none`.
C21_RemainingTokens ==
    pc = "sort" =>
        LET base == Len(dashboardTokens) - Len(Remaining) IN
        /\ base = Cardinality({k \in DOMAIN dashboardTokens :
                      dashboardTokens[k].priceSource \in {"dexie", "tibetswap"}})
        /\ \A k \in 1..Len(Remaining) :
              LET r == dashboardTokens[base + k]
                  t == Remaining[k]
              IN  /\ r.id = t.id
                  /\ IF /\ t.id \in DOMAIN lastTradePrices
                        /\ Gt(lastTradePrices[t.id].priceXch, Zero)
                     THEN /\ r.priceXch = lastTradePrices[t.id].priceXch
                          /\ r.priceUsd = Mul(lastTradePrices[t.id].priceXch, xchUsdPrice)
                          /\ r.lastUpdated = lastTradePrices[t.id].date
                          /\ r.hasMarket = "true"
                          /\ r.priceSource = "lastTrade"
                     ELSE /\ ZeroValued(r)
                          /\ r.hasMarket = "false"
                          /\ r.priceSource = "none"

\* the third loop has just dealt with A, whose last-trade price is 0, and
\* with B, whose last-trade price is 3
C21_Witness ==
    /\ pc = "sort"
    /\ lastTradePrices = TradesABC
    /\ Len(Remaining) >= 2
    /\ \E r \in Records : r.id = "A" /\ r.priceSource = "none"
    /\ \E r \in Records :
          r.id = "B" /\ r.priceSource = "lastTrade" /\ r.lastUpdated = "d3"

\* the largest level of one side of the book, 0 for an empty side
Deepest(side) ==
    IF side = <<>> THEN Zero
    ELSE LET levels == {side[k] : k \in DOMAIN side}
         IN  CHOOSE x \in levels : \A y \in levels : ~Lt(x, y)

DepthLiquidity(i) ==
    IF ~markets[i].liquidity.defined THEN Zero
    ELSE Add(Deepest(markets[i].liquidity.ask), Deepest(markets[i].liquidity.bid))

\* reserve / 10^12 x 2
PoolLiquidity(j) == Mul(Div(tibetSwapPairs[j].xch_reserve, Dec(1, 12)), Num(2))

\* the pool the merge knows for an id: the last one in the list
LastOf(S) == CHOOSE j \in S : \A k \in S : k <= j

ExpectedLiquidity(i) ==
    LET pools == PairsOf(markets[i].id) IN
    IF pools = {} THEN DepthLiquidity(i)
    ELSE IF Lt(DepthLiquidity(i), PoolLiquidity(LastOf(pools)))
         THEN PoolLiquidity(LastOf(pools))
         ELSE DepthLiquidity(i)

HasOrderBookLiquidity(r) ==
    /\ \E i \in PricedMarketsOf(r.id) :
          /\ r.priceXch = safeNumber(markets[i].price)
          /\ r.volume7dXch = safeNumber(markets[i].volWeekly)
          /\ r.liquidityXch = ExpectedLiquidity(i)
    /\ r.liquidityUsd = Mul(r.liquidityXch, xchUsdPrice)

C27_NoTokenLost ==
    Returned => \A i \in DOMAIN tokens : RecordsOf(tokens[i].id) # {}

\* three tokens that reach the result by three different routes
C27_Witness ==
    /\ Returned
    /\ {tokens[i].id : i \in DOMAIN tokens} = {"A", "B", "C"}
    /\ \E r \in Records : r.id = "A" /\ r.priceSource = "none"
    /\ \E r \in Records : r.id = "B" /\ r.priceSource = "tibetswap"
    /\ \E r \in Records : r.id = "C" /\ r.priceSource = "lastTrade"

(***************************************************************************)
(* Further properties of the oracle cache (checked under OracleSpec).      *)
(***************************************************************************)
\* C28: whatever fetchXchUsdPrice and getCachedXchPrice calls have been made,
\* the cache is empty or holds a positive value that an oracle fetch
\* delivered; it is assigned only by a call resuming with a price it has
\* just fetched, so neither the fallback constant nor a re-read of the cached
\* value is ever stored; and a call that returns the stale value or the
\* fallback constant, like a getCachedXchPrice call, leaves value and
\* timestamp as they were.
C28_CacheHoldsFetchedPrices ==
    /\ [](\/ cachedPrice = NullCache
          \/ /\ IsPositiveNumber(cachedPrice.value)
             /\ cachedPrice.timestamp <= now
             /\ \E k \in DOMAIN completed :
                   /\ completed[k].value = cachedPrice.value
                   /\ completed[k].source \in {"coingecko", "dexie"})
    /\ [][/\ cachedPrice' # cachedPrice =>
               \E c \in Calls :
                   /\ calls[c].pc \in {"afterCoinGecko", "afterDexie"}
                   /\ calls[c].price # Null
                   /\ calls'[c].pc = "returned"
                   /\ cachedPrice' = [value |-> calls[c].price, timestamp |-> now]
          /\ \A c \in Calls :
               (calls[c].pc = "afterDexie" /\ calls[c].price = Null
                    /\ calls'[c] # calls[c])
               => /\ cachedPrice' = cachedPrice
                  /\ calls'[c].ret = Success(IF cachedPrice # NullCache
                                             THEN cachedPrice.value
                                             ELSE Number(Num(25)))
          /\ lastRead' # lastRead =>
               /\ cachedPrice' = cachedPrice
               /\ lastRead' = IF cachedPrice # NullCache THEN cachedPrice.value
                              ELSE Number(Num(25))]_vars

\* one call ended in the fallback branch and getCachedXchPrice read the
\* fallback, the cache staying empty; a later call then stored a fetched price
C28_Witness ==
    /\ lastRead = Number(Num(25))
    /\ \E c, d \in Calls :
          /\ HasReturned(c) /\ calls[c].branch = "fallback"
          /\ HasReturned(d) /\ calls[d].branch = "coingecko"
          /\ cachedPrice.value = calls[d].ret.data
          /\ written = <<Fetched(d, "coingecko", cachedPrice.value)>>

(***************************************************************************)
(* Properties of fetchLastTradePrices (checked under OffersSpec).          *)
(***************************************************************************)
\* an offer the loop can take a price from
Qualifying(offer) ==
    /\ offer.date_completed # ""
    /\ OfferLegs(offer).tokenId # ""
    /\ OfferLegs(offer).tokenAmount # Zero
    /\ OfferLegs(offer).xchAmount # Zero

\* the offers already looped over that qualify for the token id
QualifiedFor(id) ==
    {k \in 1..(offerNo - 1) : Qualifying(offers[k]) /\ OfferLegs(offers[k]).tokenId = id}

\* C22: at every point of the loop, and in the map returned, a token id has
\* an entry exactly when an offer for it has qualified so far, and the entry
\* is that of the first such offer in input order: its XCH amount divided by
\* its token amount, with its completion date.
C22_FirstOfferRetained ==
    /\ \A id \in Ids :
          IF QualifiedFor(id) = {} THEN id \notin DOMAIN tradeMap
          ELSE LET first == offers[FirstOf(QualifiedFor(id))] IN
               /\ id \in DOMAIN tradeMap
               /\ tradeMap[id].priceXch =
                      Div(OfferLegs(first).xchAmount, OfferLegs(first).tokenAmount)
               /\ tradeMap[id].date = first.date_completed
    /\ DOMAIN tradeMap \subseteq Ids
    /\ Succeeded(lastTradePricesResult) =>
          /\ offerNo = Len(offers) + 1
          /\ lastTradePricesResult.data = tradeMap

\* two offers for A, at 2 / 4 and then at 3 / 4: the first one is returned
C22_Witness ==
    /\ Succeeded(lastTradePricesResult)
    /\ Cardinality(QualifiedFor("A")) = 2
    /\ offers[FirstOf(QualifiedFor("A"))].date_completed = "d1"
    /\ lastTradePricesResult.data["A"] = [priceXch |-> Dec(5, -1), date |-> "d1"]

AssetsOf(offer) ==
    {offer.offered[k] : k \in DOMAIN offer.offered}
        \cup {offer.requested[k] : k \in DOMAIN offer.requested}

\* no completion date, no XCH leg, no token leg, or a leg with amount 0
Unusable(offer) ==
    \/ offer.date_completed = ""
    \/ ~\E a \in AssetsOf(offer) : a.id = "xch"
    \/ ~\E a \in AssetsOf(offer) : a.id # "xch"
    \/ \E a \in AssetsOf(offer) : a.amount = Zero

\* C23: an offer without a completion date, without an XCH leg (token for
\* token), without a token leg, or with a leg of amount 0 is passed over: the
\* map is the same after it as before, the loop moves on and the call has
\* not failed; once the response has been accepted the call never fails.
C23_UnusableOffersSkipped ==
    /\ [](offerNo > 0 => ~Failed(lastTradePricesResult))
    /\ [][(offerNo \in DOMAIN offers /\ Unusable(offers[offerNo])) =>
             /\ tradeMap' = tradeMap
             /\ offerNo' = offerNo + 1
             /\ lastTradePricesResult' = Pending]_vars

\* an offer with no date, a token-for-token offer and a good offer for B:
\* only the last has left an entry
C23_Witness ==
    /\ Succeeded(lastTradePricesResult)
    /\ Len(offers) = 3
    /\ offers[1].date_completed = ""
    /\ \A a \in AssetsOf(offers[2]) : a.id # "xch"
    /\ DOMAIN lastTradePricesResult.data = {"B"}
    /\ lastTradePricesResult.data["B"] = [priceXch |-> Num(3), date |-> "d8"]

(***************************************************************************)
(* Properties of usePolling (checked under PollSpec).                      *)
(***************************************************************************)
\* the poll k completes with an accepted snapshot in this step
SucceedsNow(k) == polls[k] = "json" /\ polls'[k] = "succeeded"

\* the poll k completes in the catch block in this step
FailsNow(k) == polls[k] \in {"fetch", "json"} /\ polls'[k] = "failed"

UpdatesOf(k) == {i \in DOMAIN updates : updates[i].poll = k}

\* C26: on a successful poll, overlapping or not, onDataUpdate (when it is
\* supplied) is called exactly once, before the set-call that replaces the
\* data, with prev = the snapshot the data state held until then (the value
\* of prevDataRef, which is always the latest value given to setData, and
\* is what the component has rendered whenever no update is waiting for a
\* render) and new = the fetched snapshot; afterwards prevDataRef and the
\* data state both hold the fetched snapshot.  A poll that has not
\* succeeded has made no call.
C26_UpdateCallback ==
    /\ [](/\ prevDataRef = queuedState.data
          /\ (hookState = queuedState => hookState.data = prevDataRef)
          /\ \A k \in Polls :
                Cardinality(UpdatesOf(k)) =
                    IF polls[k] = "succeeded" /\ onDataUpdate THEN 1 ELSE 0)
    /\ [][\A k \in Polls : SucceedsNow(k) =>
             /\ hookState' = hookState
             /\ queuedState'.data = prevDataRef'
             /\ IF onDataUpdate
                THEN /\ updates' = Append(updates, [poll |-> k, prev |-> prevDataRef,
                                                    new |-> prevDataRef'])
                     /\ (hookState.data = queuedState.data =>
                            updates'[Len(updates')].prev = hookState.data)
                ELSE updates' = updates]_vars

\* two polls overlap; the second one started is answered first with
\* snapshot 2, the first then with snapshot 1: the calls are (0, 2), (2, 1)
C26_Witness ==
    /\ updates = <<[poll |-> 2, prev |-> Snapshot0, new |-> Snapshot2],
                   [poll |-> 1, prev |-> Snapshot2, new |-> Snapshot1]>>
    /\ hookState = queuedState
    /\ hookState.data = Snapshot1
    /\ prevDataRef = Snapshot1

Answered(c) == responses[c].status = "body"

\* the envelope is not one the client accepts
BadEnvelope(c) ==
    \/ responses[c].kind # "array"
    \/ c # "pairs" /\ ~responses[c].success

HasIdCodeName(token) == token.id # "" /\ token.code # "" /\ token.name # ""
HasIdAndPriceField(market) == market.id # "" /\ market.price.kind # "undefined"

ResultOf(c) ==
    IF c = "tokens" THEN tokensResult
    ELSE IF c = "markets" THEN marketsResult ELSE tibetSwapResult

PageSettled ==
    /\ pagination = queuedPagination
    /\ ~effectPending

\* the least n >= 1 with n pages of the size holding all the items
PagesNeeded(items, size) ==
    CHOOSE n \in 1..(items + 1) :
        /\ n * size >= items
        /\ n = 1 \/ (n - 1) * size < items

\* C30: once everything queued is rendered and the effect has run,
\* totalItems is the length of the list, totalPages is
\* max(1, ceil(totalItems / pageSize)) and 1 <= currentPage <= totalPages;
\* canGoNext / canGoPrev are currentPage < totalPages / currentPage > 1;
\* currentPage is never below 1; a set-call that changes the page size comes
\* with currentPage = 1.
C30_PageInRange ==
    /\ [](/\ pagination.currentPage >= 1
          /\ queuedPagination.currentPage >= 1
          /\ PageSettled =>
                LET pages == PagesNeeded(itemsLength, pagination.pageSize) IN
                /\ pagination.totalItems = itemsLength
                /\ totalPages(pagination) = pages
                /\ pagination.currentPage <= pages
                /\ canGoNext = (pagination.currentPage < pages)
                /\ canGoPrev = (pagination.currentPage > 1))
    /\ [][queuedPagination'.pageSize # queuedPagination.pageSize =>
             queuedPagination'.currentPage = 1]_vars

\* 26 items at 25 a page: the hook rests on the second and last page
C30_Witness ==
    /\ PageSettled
    /\ itemsLength = 26
    /\ pagination = [currentPage |-> 2, pageSize |-> 25, totalItems |-> 26]
    /\ canGoPrev
    /\ ~canGoNext

====
